---- MODULE Spec2Model ----
(***************************************************************************)
(* glug: a filter that reads newline-delimited JSON log records and        *)
(* rewrites each one as a colourised single line.                          *)
(*                                                                         *)
(* Strings are sequences of characters; a character is a one-letter TLA+   *)
(* string, except "ESC", which stands for the single byte 0x1b that starts *)
(* an ANSI colour sequence.  An input line is represented by the JSON      *)
(* document it spells (encoding/json is a library; what the program does   *)
(* with its result is modelled in Unmarshal and after).                    *)
(***************************************************************************)
EXTENDS Integers, Sequences, FiniteSets, TLC

VARIABLES
    minLevel,       \* Config.MinLevel (--level)
    usePager,       \* Config.UsePager
    colorRules,     \* the --color / --colour flag values, in command-line order
    customColors,   \* LogProcessor.customColors: map from word to colour name
    convertTimestamps, \* Config.ConvertTimestamps
    timestampFields,   \* Config.TimestampFieldList
    tzOffset,       \* offset of time.Local from UTC, in seconds
    pc,             \* position of the running operation
    line,           \* the line the current operation works on
    result,         \* what the last operation returned
    stdin,          \* lines the scanner has delivered so far
    stdout,         \* the characters written to standard output, in order
    outputLines,    \* OutputHandler.outputLines (the pager buffer)
    cancelled,      \* ctx is done (SIGINT or SIGTERM was received)
    ret,            \* how Process returned, "none" while it runs
    fieldCache,     \* the package variable fieldCache: its map and its RWMutex
    goroutines,     \* the goroutines that call the cache, each with its locals
    calls           \* number of calls of the cache functions made so far

vars == <<minLevel, usePager, colorRules, customColors, convertTimestamps, timestampFields,
          tzOffset, pc, line, result, stdin, stdout, outputLines, cancelled, ret,
          fieldCache, goroutines, calls>>

CacheVars == <<fieldCache, goroutines, calls>>

MaxGoroutines == 2
MaxCalls == 3

Goroutines == 1..MaxGoroutines

\* var fieldCache = &timestampFieldCache{cache: make(map[string]bool)}: an empty
\* map and an unlocked RWMutex (no reader, nobody in Lock, write lock not held)
NewFieldCache ==
    [cache |-> << >>, mu |-> [readers |-> {}, w |-> 0, held |-> FALSE]]

\* a goroutine outside any call
IdleGoroutine ==
    [pc |-> "idle", op |-> "none", fieldName |-> << >>, exists |-> FALSE,
     cached |-> FALSE, result |-> FALSE, returned |-> << >>]

\* the cache untouched: nothing stored, no goroutine in a call
CacheInit ==
    /\ fieldCache = NewFieldCache
    /\ goroutines = [g \in Goroutines |-> IdleGoroutine]
    /\ calls = 0

----------------------------------------------------------------------------
(* Characters and strings *)

\* The characters the model uses, in ascending byte order.
Chars ==
    << "\t", "\n", "ESC", " ", "(", ")", "+", "-", ".",
       "0", "1", "2", "3", "4", "5", "6", "7", "8", "9", ":", ";", "<", "=", ">",
       "A", "B", "C", "D", "E", "F", "G", "H", "I", "J", "K", "L", "M",
       "N", "O", "P", "Q", "R", "S", "T", "U", "V", "W", "X", "Y", "Z",
       "[", "]", "_",
       "a", "b", "c", "d", "e", "f", "g", "h", "i", "j", "k", "l", "m",
       "n", "o", "p", "q", "r", "s", "t", "u", "v", "w", "x", "y", "z" >>

CharSet == {Chars[i] : i \in 1..Len(Chars)}

Ord == [c \in CharSet |-> CHOOSE i \in 1..Len(Chars) : Chars[i] = c]

LowerLetters ==
    << "a", "b", "c", "d", "e", "f", "g", "h", "i", "j", "k", "l", "m",
       "n", "o", "p", "q", "r", "s", "t", "u", "v", "w", "x", "y", "z" >>

UpperLetters ==
    << "A", "B", "C", "D", "E", "F", "G", "H", "I", "J", "K", "L", "M",
       "N", "O", "P", "Q", "R", "S", "T", "U", "V", "W", "X", "Y", "Z" >>

UpperChar ==
    [c \in CharSet |->
        IF \E i \in 1..Len(LowerLetters) : LowerLetters[i] = c
        THEN UpperLetters[CHOOSE i \in 1..Len(LowerLetters) : LowerLetters[i] = c]
        ELSE c]

LowerChar ==
    [c \in CharSet |->
        IF \E i \in 1..Len(UpperLetters) : UpperLetters[i] = c
        THEN LowerLetters[CHOOSE i \in 1..Len(UpperLetters) : UpperLetters[i] = c]
        ELSE c]

\* strings.ToUpper / strings.ToLower
ToUpper(s) == [i \in 1..Len(s) |-> UpperChar[s[i]]]
ToLower(s) == [i \in 1..Len(s) |-> LowerChar[s[i]]]

IsSpace(c) == c \in {" ", "\t", "\n"}

\* strings.TrimSpace: drop leading and trailing white space
TrimSpace(s) ==
    IF \A i \in 1..Len(s) : IsSpace(s[i])
    THEN << >>
    ELSE LET first == CHOOSE i \in 1..Len(s) :
                          /\ ~IsSpace(s[i])
                          /\ \A j \in 1..(i - 1) : IsSpace(s[j])
             last  == CHOOSE i \in 1..Len(s) :
                          /\ ~IsSpace(s[i])
                          /\ \A j \in (i + 1)..Len(s) : IsSpace(s[j])
         IN  SubSeq(s, first, last)

\* Go's string comparison a < b: bytewise lexicographic
RECURSIVE StrLess(_, _)
StrLess(a, b) ==
    IF b = << >> THEN FALSE
    ELSE IF a = << >> THEN TRUE
    ELSE IF Ord[Head(a)] # Ord[Head(b)] THEN Ord[Head(a)] < Ord[Head(b)]
    ELSE StrLess(Tail(a), Tail(b))

\* strings.Join
RECURSIVE Join(_, _)
Join(parts, sep) ==
    IF parts = << >> THEN << >>
    ELSE IF Len(parts) = 1 THEN parts[1]
    ELSE parts[1] \o sep \o Join(Tail(parts), sep)

Range(f) == {f[i] : i \in DOMAIN f}

----------------------------------------------------------------------------
(* Severity levels *)

LevelTrace == 0
LevelDebug == 1
LevelInfo  == 2
LevelWarn  == 3
LevelError == 4

\* parseLogLevel without the whitespace trimming
parseLogLevel_NoTrim(levelStr) ==
    LET s == ToUpper(levelStr) IN
    CASE s \in { <<"T","R","A","C","E">>, <<"T","R","C">> } -> LevelTrace
      [] s \in { <<"D","E","B","U","G">>, <<"D","B","G">> } -> LevelDebug
      [] s \in { <<"I","N","F","O">>, <<"I","N","F">> } -> LevelInfo
      [] s \in { <<"W","A","R","N">>, <<"W","A","R","N","I","N","G">>, <<"W","R","N">> } -> LevelWarn
      [] s \in { <<"E","R","R","O","R">>, <<"E","R","R">>, <<"F","A","T","A","L">>,
                 <<"C","R","I","T">>, <<"C","R","I","T","I","C","A","L">> } -> LevelError
      [] OTHER -> LevelInfo

\* parseLogLevel with ERROR, not INFO, as the class of an unknown string
parseLogLevel_DefaultError(levelStr) ==
    LET s == ToUpper(TrimSpace(levelStr)) IN
    CASE s \in { <<"T","R","A","C","E">>, <<"T","R","C">> } -> LevelTrace
      [] s \in { <<"D","E","B","U","G">>, <<"D","B","G">> } -> LevelDebug
      [] s \in { <<"I","N","F","O">>, <<"I","N","F">> } -> LevelInfo
      [] s \in { <<"W","A","R","N">>, <<"W","A","R","N","I","N","G">>, <<"W","R","N">> } -> LevelWarn
      [] OTHER -> LevelError

parseLogLevel(levelStr) ==
    LET s == ToUpper(TrimSpace(levelStr)) IN
    CASE s \in { <<"T","R","A","C","E">>, <<"T","R","C">> } -> LevelTrace
      [] s \in { <<"D","E","B","U","G">>, <<"D","B","G">> } -> LevelDebug
      [] s \in { <<"I","N","F","O">>, <<"I","N","F">> } -> LevelInfo
      [] s \in { <<"W","A","R","N">>, <<"W","A","R","N","I","N","G">>, <<"W","R","N">> } -> LevelWarn
      [] s \in { <<"E","R","R","O","R">>, <<"E","R","R">>, <<"F","A","T","A","L">>,
                 <<"C","R","I","T">>, <<"C","R","I","T","I","C","A","L">> } -> LevelError
      [] OTHER -> LevelInfo

----------------------------------------------------------------------------
(* JSON documents and json.Unmarshal into map[string]interface{} *)

\* JSON values as interface{} holds them after decoding
JString(s) == [t |-> "string", s |-> s]
\* a whole number: its sign and its decimal digits as written, without leading zeros
JNumber(neg, digits) == [t |-> "number", neg |-> neg, digits |-> digits]
JBool(b)   == [t |-> "bool", b |-> b]
JNull      == [t |-> "null"]
JArray     == [t |-> "array"]      \* the empty array []
JObject    == [t |-> "object"]     \* the empty object {}

\* A non-object line
Other(kind) == [kind |-> kind, pairs |-> << >>]
\* An object line: its members in the order written, as <<key, value>>
Obj(pairs) == [kind |-> "object", pairs |-> pairs]

\* json.Unmarshal([]byte(jsonLine), &rawLog) with rawLog map[string]interface{}:
\* a syntax error or a top-level value that is neither an object nor null is an
\* error; null leaves the map nil; of a repeated key the last member wins.
Unmarshal(doc) ==
    IF doc.kind = "object"
    THEN LET keys == {doc.pairs[i][1] : i \in 1..Len(doc.pairs)}
             lastOf(k) == CHOOSE i \in 1..Len(doc.pairs) :
                              /\ doc.pairs[i][1] = k
                              /\ \A j \in (i + 1)..Len(doc.pairs) : doc.pairs[j][1] # k
         IN  [err |-> FALSE, m |-> [k \in keys |-> doc.pairs[lastOf(k)][2]]]
    ELSE IF doc.kind = "null"
    THEN [err |-> FALSE, m |-> << >>]
    ELSE [err |-> TRUE, m |-> << >>]

----------------------------------------------------------------------------
(* Level filter *)

\* ShouldShowLogLevel comparing the other way round
ShouldShowLogLevel_Inverted(jsonLine, minLevelStr) ==
    LET u == Unmarshal(jsonLine) IN
    IF u.err THEN TRUE
    ELSE IF <<"l","e","v","e","l">> \notin DOMAIN u.m THEN TRUE
    ELSE IF u.m[<<"l","e","v","e","l">>].t # "string" THEN TRUE
    ELSE parseLogLevel(u.m[<<"l","e","v","e","l">>].s) <= parseLogLevel(minLevelStr)

\* ShouldShowLogLevel treating a non-string level as the zero string
ShouldShowLogLevel_NoTypeCheck(jsonLine, minLevelStr) ==
    LET u == Unmarshal(jsonLine) IN
    IF u.err THEN TRUE
    ELSE IF <<"l","e","v","e","l">> \notin DOMAIN u.m THEN TRUE
    ELSE LET lv == u.m[<<"l","e","v","e","l">>]
             levelStr == IF lv.t = "string" THEN lv.s ELSE << >>
         IN  parseLogLevel(levelStr) >= parseLogLevel(minLevelStr)

\* ShouldShowLogLevel: the boolean it returns (its error result is always nil)
ShouldShowLogLevel(jsonLine, minLevelStr) ==
    LET u == Unmarshal(jsonLine) IN
    IF u.err THEN TRUE
    ELSE IF <<"l","e","v","e","l">> \notin DOMAIN u.m THEN TRUE
    ELSE IF u.m[<<"l","e","v","e","l">>].t # "string" THEN TRUE
    ELSE parseLogLevel(u.m[<<"l","e","v","e","l">>].s) >= parseLogLevel(minLevelStr)

----------------------------------------------------------------------------
(* fmt.Sprintf("%v", value) *)

Digits == << "0", "1", "2", "3", "4", "5", "6", "7", "8", "9" >>

IsDigit(c) == \E i \in 1..Len(Digits) : Digits[i] = c
DigitVal(c) == (CHOOSE i \in 1..Len(Digits) : Digits[i] = c) - 1

\* decimal digits of a natural number, at least `width` of them
RECURSIVE Itoa(_, _)
Itoa(n, width) ==
    IF n < 10 /\ width <= 1 THEN << Digits[n + 1] >>
    ELSE Itoa(n \div 10, width - 1) \o << Digits[(n % 10) + 1] >>

RECURSIVE StripTrailingZeros(_)
StripTrailingZeros(d) ==
    IF Len(d) > 1 /\ d[Len(d)] = "0" THEN StripTrailingZeros(SubSeq(d, 1, Len(d) - 1))
    ELSE d

\* %v of a float64 holding a whole number: strconv's shortest 'g' format, which
\* switches to the exponent form when the decimal exponent is below -4 or at
\* least 6
FormatFloat(neg, digits) ==
    LET sig   == StripTrailingZeros(digits)
        nd    == IF digits = <<"0">> THEN 0 ELSE Len(sig)
        dp    == IF digits = <<"0">> THEN 0 ELSE Len(digits)
        exp   == dp - 1
        sign  == IF neg THEN <<"-">> ELSE << >>
    IN  IF digits = <<"0">> THEN sign \o <<"0">>
        ELSE IF exp >= 6
        THEN sign \o << sig[1] >>
                  \o (IF nd > 1 THEN <<".">> \o SubSeq(sig, 2, nd) ELSE << >>)
                  \o <<"e", "+">> \o Itoa(exp, 2)
        ELSE sign \o digits

\* %v with a whole number written as its decimal digits
Sprintf_v_Decimal(value) ==
    CASE value.t = "string" -> value.s
      [] value.t = "number" -> (IF value.neg THEN <<"-">> ELSE << >>) \o value.digits
      [] value.t = "bool"   -> IF value.b THEN <<"t","r","u","e">> ELSE <<"f","a","l","s","e">>
      [] value.t = "null"   -> <<"<","n","i","l",">">>
      [] value.t = "array"  -> <<"[","]">>
      [] value.t = "object" -> <<"m","a","p","[","]">>

\* fmt.Sprintf("%v", value)
Sprintf_v(value) ==
    CASE value.t = "string" -> value.s
      [] value.t = "number" -> FormatFloat(value.neg, value.digits)
      [] value.t = "bool"   -> IF value.b THEN <<"t","r","u","e">> ELSE <<"f","a","l","s","e">>
      [] value.t = "null"   -> <<"<","n","i","l",">">>
      [] value.t = "array"  -> <<"[","]">>
      [] value.t = "object" -> <<"m","a","p","[","]">>

----------------------------------------------------------------------------
(* github.com/fatih/color with colours enabled (color.NoColor = false): text *)
(* wrapped in an ANSI colour sequence                                        *)

\* the foreground attribute of each colour: ESC [ 3 <digit> m
FgDigit ==
    [ red |-> "1", green |-> "2", yellow |-> "3", blue |-> "4",
      magenta |-> "5", cyan |-> "6", white |-> "7" ]

\* color.RedString(s), color.GreenString(s), ...: s between the colour's start
\* sequence and the reset sequence ESC [ 0 m
ColorString(c, s) == <<"ESC", "[", "3", FgDigit[c], "m">> \o s \o <<"ESC", "[", "0", "m">>

\* formatLevel colouring the level as written, without upper-casing it
formatLevel_NoUpper(level) ==
    LET l == ToUpper(level) IN
    CASE l \in { <<"E","R","R","O","R">>, <<"E","R","R">> } -> ColorString("red", level)
      [] l \in { <<"W","A","R","N">>, <<"W","A","R","N","I","N","G">> } -> ColorString("yellow", level)
      [] l = <<"I","N","F","O">> -> ColorString("green", level)
      [] l = <<"D","E","B","U","G">> -> ColorString("blue", level)
      [] l = <<"T","R","A","C","E">> -> ColorString("magenta", level)
      [] OTHER -> ColorString("white", level)

\* formatLevel
formatLevel(level) ==
    LET l == ToUpper(level) IN
    CASE l \in { <<"E","R","R","O","R">>, <<"E","R","R">> } -> ColorString("red", l)
      [] l \in { <<"W","A","R","N">>, <<"W","A","R","N","I","N","G">> } -> ColorString("yellow", l)
      [] l = <<"I","N","F","O">> -> ColorString("green", l)
      [] l = <<"D","E","B","U","G">> -> ColorString("blue", l)
      [] l = <<"T","R","A","C","E">> -> ColorString("magenta", l)
      [] OTHER -> ColorString("white", l)

\* getColorFunc(colorName)(s)
getColorFunc(colorName, s) ==
    LET n == ToLower(colorName) IN
    CASE n = <<"r","e","d">> -> ColorString("red", s)
      [] n = <<"g","r","e","e","n">> -> ColorString("green", s)
      [] n = <<"y","e","l","l","o","w">> -> ColorString("yellow", s)
      [] n = <<"b","l","u","e">> -> ColorString("blue", s)
      [] n = <<"m","a","g","e","n","t","a">> -> ColorString("magenta", s)
      [] n = <<"c","y","a","n">> -> ColorString("cyan", s)
      [] n = <<"w","h","i","t","e">> -> ColorString("white", s)
      [] OTHER -> ColorString("white", s)

\* strings.Contains(s, word)
Contains(s, word) ==
    \E i \in 1..(Len(s) - Len(word) + 1) : SubSeq(s, i, i + Len(word) - 1) = word

\* strings.Index(s, word): the position of the first occurrence of word in s
\* (counted from 1), for a word that s contains
Index(s, word) ==
    CHOOSE i \in 1..(Len(s) - Len(word) + 1) :
        /\ SubSeq(s, i, i + Len(word) - 1) = word
        /\ \A j \in 1..(i - 1) : SubSeq(s, j, j + Len(word) - 1) # word

\* strings.ReplaceAll(s, old, new): the non-overlapping occurrences of old,
\* left to right; an empty old matches before every character and at the end
RECURSIVE ReplaceAll(_, _, _)
ReplaceAll(s, old, new) ==
    IF old = << >>
    THEN [i \in 1..((Len(s) + 1) * Len(new) + Len(s)) |->
             IF (i - 1) % (Len(new) + 1) < Len(new)
             THEN new[((i - 1) % (Len(new) + 1)) + 1]
             ELSE s[((i - 1) \div (Len(new) + 1)) + 1]]
    ELSE IF ~Contains(s, old) THEN s
    ELSE SubSeq(s, 1, Index(s, old) - 1) \o new
            \o ReplaceAll(SubSeq(s, Index(s, old) + Len(old), Len(s)), old, new)

\* the loop of applyCustomColors over the rules in iteration order `order`
RECURSIVE ApplyRules(_, _, _)
ApplyRules(res, rules, order) ==
    IF order = << >> THEN res
    ELSE LET word == Head(order)
             next == IF Contains(res, word)
                     THEN ReplaceAll(res, word, getColorFunc(rules[word], word))
                     ELSE res
         IN  ApplyRules(next, rules, Tail(order))

\* applyCustomColors with the whole text put in the colour of a rule that matches
applyCustomColors_WholeText(text, rules, order) ==
    IF DOMAIN rules = {} THEN ColorString("white", text)
    ELSE IF \E w \in DOMAIN rules : Contains(text, w)
    THEN getColorFunc(rules[CHOOSE w \in DOMAIN rules : Contains(text, w)], text)
    ELSE ColorString("white", text)

\* applyCustomColors(text, customColors); `order` is the order in which the
\* range over the map visits its keys
applyCustomColors(text, rules, order) ==
    IF DOMAIN rules = {} THEN ColorString("white", text)
    ELSE LET res == ApplyRules(text, rules, order)
         IN  IF res = text THEN ColorString("white", text) ELSE res

----------------------------------------------------------------------------
(* formatTime *)

\* long division of a digit string by a small divisor d: <<quotient, remainder>>
RECURSIVE DivMod(_, _, _, _)
DivMod(digits, d, q, r) ==
    IF digits = << >> THEN <<q, r>>
    ELSE LET cur == r * 10 + DigitVal(Head(digits))
         IN  DivMod(Tail(digits), d, q * 10 + (cur \div d), cur % d)

\* floor division of the whole number (neg, digits) by d: <<quotient, remainder>>
FloorDivMod(neg, digits, d) ==
    LET qr == DivMod(digits, d, 0, 0) IN
    IF ~neg THEN qr
    ELSE IF qr[2] = 0 THEN << -qr[1], 0 >>
    ELSE << -qr[1] - 1, d - qr[2] >>

\* t > 1e10 for the whole number (neg, digits)
Above1e10(neg, digits) ==
    /\ ~neg
    /\ \/ Len(digits) > 11
       \/ Len(digits) = 11 /\ digits # <<"1","0","0","0","0","0","0","0","0","0","0">>

\* the civil date of a day number counted from 1970-01-01 (proleptic Gregorian),
\* computed era by era (400 years), then year of era, day of year and month
CivilFromMonth(y, mp, d) ==
    [year  |-> y + (IF mp >= 10 THEN 1 ELSE 0),
     month |-> IF mp < 10 THEN mp + 3 ELSE mp - 9,
     day   |-> d]

CivilFromDoy(y, doy) ==
    CivilFromMonth(y, (5 * doy + 2) \div 153,
                   doy - (153 * ((5 * doy + 2) \div 153) + 2) \div 5 + 1)

CivilFromYoe(era, doe, yoe) ==
    CivilFromDoy(yoe + era * 400, doe - (365 * yoe + yoe \div 4 - yoe \div 100))

CivilFromDoe(era, doe) ==
    CivilFromYoe(era, doe,
                 (doe - doe \div 1460 + doe \div 36524 - doe \div 146096) \div 365)

CivilFromDays(days) ==
    CivilFromDoe((days + 719468) \div 146097,
                 (days + 719468) - ((days + 719468) \div 146097) * 146097)

\* "2006-01-02 15:04:05" of a civil date and a second of the day
FormatCivil(c, sod) ==
    Itoa(c.year, 4) \o <<"-">> \o Itoa(c.month, 2) \o <<"-">> \o Itoa(c.day, 2)
        \o <<" ">> \o Itoa(sod \div 3600, 2) \o <<":">> \o Itoa((sod % 3600) \div 60, 2)
        \o <<":">> \o Itoa(sod % 60, 2)

\* Time.Format("2006-01-02 15:04:05") of the instant `days` days and `secs`
\* seconds of the day after the epoch, seen in a zone `offset` seconds east of UTC
FormatInstant(days, secs, offset) ==
    FormatCivil(CivilFromDays(days + ((secs + offset) \div 86400)), (secs + offset) % 86400)

DaysIn(year, month) ==
    IF month = 2
    THEN IF (year % 4 = 0 /\ year % 100 # 0) \/ year % 400 = 0 THEN 29 ELSE 28
    ELSE IF month \in {4, 6, 9, 11} THEN 30 ELSE 31

Num2(s, i) == DigitVal(s[i]) * 10 + DigitVal(s[i + 1])

\* the leading "2006-01-02T15:04:05" of a layout matches the first 19 characters
\* of s and they name a valid date and time of day
ParsesDateTime(s) ==
    /\ Len(s) >= 19
    /\ \A i \in {1, 2, 3, 4, 6, 7, 9, 10, 12, 13, 15, 16, 18, 19} : IsDigit(s[i])
    /\ s[5] = "-" /\ s[8] = "-" /\ s[11] = "T" /\ s[14] = ":" /\ s[17] = ":"
    /\ LET year  == Num2(s, 1) * 100 + Num2(s, 3)
           month == Num2(s, 6)
           day   == Num2(s, 9)
       IN  /\ month \in 1..12
           /\ day \in 1..DaysIn(year, month)
           /\ Num2(s, 12) < 24 /\ Num2(s, 15) < 60 /\ Num2(s, 18) < 60

\* the "Z07:00" of time.RFC3339 matches z: Z, or a sign and hh:mm
ParsesZone(z) ==
    \/ z = <<"Z">>
    \/ /\ Len(z) = 6
       /\ z[1] \in {"+", "-"}
       /\ IsDigit(z[2]) /\ IsDigit(z[3]) /\ z[4] = ":" /\ IsDigit(z[5]) /\ IsDigit(z[6])
       /\ Num2(z, 2) < 24 /\ Num2(z, 5) < 60

\* the length of a fractional second ".ddd" that follows the seconds in s (time.Parse
\* accepts one although the layout has none), 0 if there is none
FractionLen(s) ==
    IF Len(s) >= 21 /\ s[20] = "." /\ IsDigit(s[21])
    THEN 1 + Cardinality({i \in 21..Len(s) : \A j \in 21..i : IsDigit(s[j])})
    ELSE 0

\* what follows the seconds and their fraction
AfterSeconds(s) == SubSeq(s, 20 + FractionLen(s), Len(s))

\* parsed.Format("2006-01-02 15:04:05") of a time parsed from s: the wall clock
\* that s writes, in the zone that s writes (UTC when it writes none)
WallClock(s) == SubSeq(s, 1, 10) \o <<" ">> \o SubSeq(s, 12, 19)

\* int64 values as four 16-bit limbs, least significant first (two's complement)

\* l * m + carry in 64 bits, the carry out of the top limb dropped
RECURSIVE MulAddLimbs(_, _, _)
MulAddLimbs(l, m, carry) ==
    IF l = << >> THEN << >>
    ELSE << (Head(l) * m + carry) % 65536 >>
            \o MulAddLimbs(Tail(l), m, (Head(l) * m + carry) \div 65536)

\* the decimal number `digits`, reduced modulo 2^64
RECURSIVE LimbsOfDigits(_, _)
LimbsOfDigits(digits, acc) ==
    IF digits = << >> THEN acc
    ELSE LimbsOfDigits(Tail(digits), MulAddLimbs(acc, 10, DigitVal(Head(digits))))

\* int64(t) * int64(time.Millisecond) for the whole number t >= 0 with these
\* digits: t * 1000000 in 64 bits, wrapping around as Go's multiplication does
MillisToNanos(digits) ==
    LimbsOfDigits(digits \o <<"0","0","0","0","0","0">>, <<0, 0, 0, 0>>)

\* the sign bit, and the magnitude of a negative value
IsNegative(l) == l[4] >= 32768

Negate(l) == MulAddLimbs([i \in 1..4 |-> 65535 - l[i]], 1, 1)

\* division of the limbs above and including i by d < 32768, with the incoming
\* remainder r: the quotient limbs and the remainder
RECURSIVE DivLimbsFrom(_, _, _, _)
DivLimbsFrom(l, i, d, r) ==
    IF i > Len(l) THEN [q |-> << >>, r |-> r, top |-> r]
    ELSE LET up == DivLimbsFrom(l, i + 1, d, r)
         IN  [q |-> << (up.top * 65536 + l[i]) \div d >> \o up.q,
              r |-> (up.top * 65536 + l[i]) % d,
              top |-> (up.top * 65536 + l[i]) % d]

DivLimbs(l, d) == DivLimbsFrom(l, 1, d, 0)

\* whole seconds in a magnitude of nanoseconds, and whether a fraction is left
SecondsOfNanos(mag) == DivLimbs(DivLimbs(DivLimbs(mag, 1000).q, 1000).q, 1000).q

HasFraction(mag) ==
    \/ DivLimbs(mag, 1000).r # 0
    \/ DivLimbs(DivLimbs(mag, 1000).q, 1000).r # 0
    \/ DivLimbs(DivLimbs(DivLimbs(mag, 1000).q, 1000).q, 1000).r # 0

\* whole days in a magnitude of seconds, and the seconds left over
DaysOfSeconds(secs) ==
    DivLimbs(DivLimbs(DivLimbs(secs, 60).q, 60).q, 24).q[1]
        + 65536 * DivLimbs(DivLimbs(DivLimbs(secs, 60).q, 60).q, 24).q[2]

RestOfSeconds(secs) ==
    DivLimbs(secs, 60).r + 60 * DivLimbs(DivLimbs(secs, 60).q, 60).r
        + 3600 * DivLimbs(DivLimbs(DivLimbs(secs, 60).q, 60).q, 24).r

\* the seconds before the epoch of a negative instant whose magnitude has
\* `days` days and `rest` seconds (any fraction counted as a whole second):
\* time.Unix rounds towards the earlier second
FormatBefore(days, rest, offset) ==
    IF rest = 0 THEN FormatInstant(-days, 0, offset)
    ELSE FormatInstant(-days - 1, 86400 - rest, offset)

\* time.Unix(0, nsec).Format("2006-01-02 15:04:05") for an int64 nsec
FormatNanos(nsec, offset) ==
    IF IsNegative(nsec)
    THEN FormatBefore(DaysOfSeconds(SecondsOfNanos(Negate(nsec))),
                      RestOfSeconds(SecondsOfNanos(Negate(nsec)))
                          + (IF HasFraction(Negate(nsec)) THEN 1 ELSE 0),
                      offset)
    ELSE FormatInstant(DaysOfSeconds(SecondsOfNanos(nsec)),
                       RestOfSeconds(SecondsOfNanos(nsec)), offset)

\* formatTime with the empty string for a string it cannot parse
formatTime_EmptyOnFailure(timeVal, offset) ==
    CASE timeVal.t = "null" -> << >>
      [] timeVal.t = "number" ->
            IF Above1e10(timeVal.neg, timeVal.digits)
            THEN FormatNanos(MillisToNanos(timeVal.digits), offset)
            ELSE LET qr == FloorDivMod(timeVal.neg, timeVal.digits, 86400)
                 IN  FormatInstant(qr[1], qr[2], offset)
      [] timeVal.t = "string" ->
            IF ParsesDateTime(timeVal.s) /\ ParsesZone(AfterSeconds(timeVal.s))
            THEN WallClock(timeVal.s)
            ELSE IF ParsesDateTime(timeVal.s) /\ AfterSeconds(timeVal.s) = << >>
            THEN WallClock(timeVal.s)
            ELSE << >>
      [] OTHER -> Sprintf_v(timeVal)

\* formatTime(timeVal); nil is the value of an absent and of a null "time".
\* Whole numbers within the int64 nanosecond range of time.Unix only; date and
\* time fields of strings in their two-digit forms only.
formatTime(timeVal, offset) ==
    CASE timeVal.t = "null" -> << >>
      [] timeVal.t = "number" ->
            IF Above1e10(timeVal.neg, timeVal.digits)
            THEN FormatNanos(MillisToNanos(timeVal.digits), offset)
            ELSE LET qr == FloorDivMod(timeVal.neg, timeVal.digits, 86400)
                 IN  FormatInstant(qr[1], qr[2], offset)
      [] timeVal.t = "string" ->
            IF ParsesDateTime(timeVal.s) /\ ParsesZone(AfterSeconds(timeVal.s))
            THEN WallClock(timeVal.s)
            ELSE IF ParsesDateTime(timeVal.s) /\ AfterSeconds(timeVal.s) = << >>
            THEN WallClock(timeVal.s)
            ELSE timeVal.s
      [] OTHER -> Sprintf_v(timeVal)

----------------------------------------------------------------------------
(* Rendering *)

K_level   == <<"l","e","v","e","l">>
K_time    == <<"t","i","m","e">>
K_message == <<"m","e","s","s","a","g","e">>

\* strings.EqualFold on the model's characters
EqualFold(a, b) == ToLower(a) = ToLower(b)

\* strings.HasPrefix and strings.HasSuffix
HasPrefix(s, prefix) == Len(s) >= Len(prefix) /\ SubSeq(s, 1, Len(prefix)) = prefix
HasSuffix(s, suffix) ==
    Len(s) >= Len(suffix) /\ SubSeq(s, Len(s) - Len(suffix) + 1, Len(s)) = suffix

\* the name patterns of isTimestampField, in the order of the source
timestampPatterns ==
    << <<"t","i","m","e">>,
       <<"t","i","m","e","s","t","a","m","p">>,
       <<"t","s">>,
       <<"d","a","t","e">>,
       <<"c","r","e","a","t","e","d">>,
       <<"u","p","d","a","t","e","d">>,
       <<"m","o","d","i","f","i","e","d">>,
       <<"e","x","p","i","r","e","s">>,
       <<"e","x","p","i","r","y">>,
       <<"e","x","p","i","r","e">>,
       <<"v","a","l","i","d","u","n","t","i","l">>,
       <<"v","a","l","i","d","_","u","n","t","i","l">>,
       <<"s","t","a","r","t","t","i","m","e">>,
       <<"s","t","a","r","t","_","t","i","m","e">>,
       <<"e","n","d","t","i","m","e">>,
       <<"e","n","d","_","t","i","m","e">>,
       <<"b","e","g","i","n","t","i","m","e">>,
       <<"b","e","g","i","n","_","t","i","m","e">>,
       <<"l","a","s","t","s","e","e","n">>,
       <<"l","a","s","t","_","s","e","e","n">>,
       <<"l","a","s","t","l","o","g","i","n">>,
       <<"l","a","s","t","_","l","o","g","i","n">>,
       <<"l","a","s","t","a","c","c","e","s","s">>,
       <<"l","a","s","t","_","a","c","c","e","s","s">>,
       <<"i","s","s","u","e","d">>,
       <<"i","s","s","u","e","d","a","t">>,
       <<"i","s","s","u","e","d","_","a","t">>,
       <<"n","o","t","b","e","f","o","r","e">>,
       <<"n","o","t","_","b","e","f","o","r","e">>,
       <<"n","o","t","a","f","t","e","r">>,
       <<"n","o","t","_","a","f","t","e","r">>,
       <<"s","i","n","c","e">>,
       <<"u","n","t","i","l">>,
       <<"f","r","o","m">>,
       <<"t","o">>,
       <<"w","h","e","n">> >>

\* isTimestampField(fieldName): the name heuristic
isTimestampField(fieldName) ==
    LET name == ToLower(fieldName) IN
    \/ \E i \in 1..Len(timestampPatterns) :
          \/ name = timestampPatterns[i]
          \/ HasPrefix(name, timestampPatterns[i] \o <<"_">>)
          \/ HasSuffix(name, <<"_">> \o timestampPatterns[i])
    \/ Contains(name, <<"t","i","m","e">>) /\ ~Contains(name, <<"s","t","a","t","u","s">>)
    \/ /\ Contains(name, <<"a","t">>)
       /\ Contains(name, <<"t","i","m","e">>) \/ Contains(name, <<"d","a","t","e">>)

\* the conversion with the name heuristic consulted besides the list
convertTimestampFieldWithConfig_Heuristic(fieldName, value, customFields, offset) ==
    LET shouldConvert == \/ \E i \in 1..Len(customFields) : EqualFold(fieldName, customFields[i])
                         \/ isTimestampField(fieldName)
        converted     == formatTime(value, offset)
        originalStr   == Sprintf_v(value)
    IN  IF ~shouldConvert THEN Sprintf_v(value)
        ELSE IF converted # << >> /\ converted # originalStr
        THEN converted \o <<" ", "(">> \o originalStr \o <<")">>
        ELSE originalStr

\* the conversion with the converted text alone, the original left out
convertTimestampFieldWithConfig_ConvertedOnly(fieldName, value, customFields, offset) ==
    LET shouldConvert == \E i \in 1..Len(customFields) : EqualFold(fieldName, customFields[i])
        converted     == formatTime(value, offset)
        originalStr   == Sprintf_v(value)
    IN  IF ~shouldConvert THEN Sprintf_v(value)
        ELSE IF converted # << >> /\ converted # originalStr
        THEN converted
        ELSE originalStr

\* convertTimestampFieldWithConfig(fieldName, value, customFields)
convertTimestampFieldWithConfig(fieldName, value, customFields, offset) ==
    LET shouldConvert == \E i \in 1..Len(customFields) : EqualFold(fieldName, customFields[i])
        converted     == formatTime(value, offset)
        originalStr   == Sprintf_v(value)
    IN  IF ~shouldConvert THEN Sprintf_v(value)
        ELSE IF converted # << >> /\ converted # originalStr
        THEN converted \o <<" ", "(">> \o originalStr \o <<")">>
        ELSE originalStr

\* sort.Strings: insertion of x into an ascending sequence, and the sort
RECURSIVE InsertSorted(_, _)
InsertSorted(x, sorted) ==
    IF sorted = << >> THEN << x >>
    ELSE IF StrLess(x, Head(sorted)) THEN << x >> \o sorted
    ELSE << Head(sorted) >> \o InsertSorted(x, Tail(sorted))

RECURSIVE SortStrings(_)
SortStrings(keys) ==
    IF keys = << >> THEN << >>
    ELSE InsertSorted(Head(keys), SortStrings(Tail(keys)))

\* the zero LogEntry
EmptyEntry == [Level |-> << >>, Time |-> JNull, Message |-> << >>, Other |-> << >>]

\* the extraction with a non-string level or message falling to the field bag
Extract_KeepNonString(rawLog) ==
    LET has(k) == k \in DOMAIN rawLog
        lvl == has(K_level) /\ rawLog[K_level].t = "string"
        msg == has(K_message) /\ rawLog[K_message].t = "string"
    IN
    [ Level   |-> IF lvl THEN rawLog[K_level].s ELSE << >>,
      Time    |-> IF has(K_time) THEN rawLog[K_time] ELSE JNull,
      Message |-> IF msg THEN rawLog[K_message].s ELSE << >>,
      Other   |-> [k \in DOMAIN rawLog \ ({K_time} \cup (IF lvl THEN {K_level} ELSE {})
                                                   \cup (IF msg THEN {K_message} ELSE {}))
                     |-> rawLog[k]] ]

\* the extraction loop of ParseAndFormatWithOptions over the decoded map
Extract(rawLog) ==
    LET has(k) == k \in DOMAIN rawLog IN
    [ Level   |-> IF has(K_level) /\ rawLog[K_level].t = "string"
                  THEN rawLog[K_level].s ELSE << >>,
      Time    |-> IF has(K_time) THEN rawLog[K_time] ELSE JNull,
      Message |-> IF has(K_message) /\ rawLog[K_message].t = "string"
                  THEN rawLog[K_message].s ELSE << >>,
      Other   |-> [k \in DOMAIN rawLog \ {K_level, K_time, K_message} |-> rawLog[k]] ]

\* the orders in which one call of formatEntryWithOptions may range over its
\* maps: keys of entry.Other, and the colour rules once for the message and
\* once for every field value
Perms(S) == {p \in [1..Cardinality(S) -> S] : \A i, j \in DOMAIN p : p[i] = p[j] => i = j}

Iterations(entry, rules) ==
    [ keys : Perms(DOMAIN entry.Other),
      msg  : Perms(DOMAIN rules),
      val  : [DOMAIN entry.Other -> Perms(DOMAIN rules)] ]

\* one key=value part
FieldPart(entry, key, rules, conv, fields, offset, order) ==
    LET value          == entry.Other[key]
        keyStr         == ColorString("magenta", key)
        convertedValue == IF conv
                          THEN convertTimestampFieldWithConfig(key, value, fields, offset)
                          ELSE Sprintf_v(value)
        valueStr       == applyCustomColors(ColorString("yellow", convertedValue), rules, order)
    IN  keyStr \o <<"=">> \o valueStr

\* the parts formatEntryWithOptions appends, each a sequence of zero or one string
TimePart(entry, offset) ==
    LET timeStr == formatTime(entry.Time, offset) IN
    IF timeStr # << >> THEN << ColorString("cyan", timeStr) >> ELSE << >>

LevelPart(entry) ==
    IF entry.Level # << >> THEN << formatLevel(entry.Level) >> ELSE << >>

\* the message appended without the test for the empty string
MessagePart_Unguarded(entry, rules, order) ==
    << applyCustomColors(entry.Message, rules, order) >>

MessagePart(entry, rules, order) ==
    IF entry.Message # << >>
    THEN << applyCustomColors(entry.Message, rules, order) >>
    ELSE << >>

\* the keys of entry.Other left in map iteration order
SortedKeys_Unsorted(iterKeys) == iterKeys

\* keys collected in map iteration order, then sort.Strings(keys)
SortedKeys(iterKeys) == SortStrings(iterKeys)

FieldsPart(entry, rules, conv, fields, offset, iter) ==
    LET keys       == SortedKeys(iter.keys)
        otherParts == [i \in 1..Len(keys) |->
                          FieldPart(entry, keys[i], rules, conv, fields, offset, iter.val[keys[i]])]
    IN  IF Len(otherParts) > 0 THEN << Join(otherParts, <<" ">>) >> ELSE << >>

\* formatEntryWithOptions(entry, customColors, convertTimestamps, timestampFields)
formatEntryWithOptions(entry, rules, conv, fields, offset, iter) ==
    Join(TimePart(entry, offset) \o LevelPart(entry) \o MessagePart(entry, rules, iter.msg)
            \o FieldsPart(entry, rules, conv, fields, offset, iter),
         <<" ">>)

\* ParseAndFormatWithOptions: [err, out, entry]
ParseAndFormatWithOptions(jsonLine, rules, conv, fields, offset, iter) ==
    LET u == Unmarshal(jsonLine) IN
    IF u.err THEN [err |-> TRUE, out |-> << >>, entry |-> EmptyEntry]
    ELSE [err |-> FALSE,
          out |-> formatEntryWithOptions(Extract(u.m), rules, conv, fields, offset, iter),
          entry |-> Extract(u.m)]

----------------------------------------------------------------------------
(* Inputs *)

MaxExtra == 2       \* most members of an object besides level, time and message
MaxLines == 3       \* most lines of an input stream

S_info  == <<"i","n","f","o">>
S_hello == <<"h","e","l","l","o">>

\* level strings: every name and alias in both cases, padded, unknown and empty
KnownLevelNames ==
    { <<"T","R","A","C","E">>, <<"T","R","C">>, <<"D","E","B","U","G">>, <<"D","B","G">>,
      <<"I","N","F","O">>, <<"I","N","F">>, <<"W","A","R","N">>,
      <<"W","A","R","N","I","N","G">>, <<"W","R","N">>, <<"E","R","R","O","R">>,
      <<"E","R","R">>, <<"F","A","T","A","L">>, <<"C","R","I","T">>,
      <<"C","R","I","T","I","C","A","L">> }

LevelStrings ==
    KnownLevelNames \cup {ToLower(l) : l \in KnownLevelNames}
        \cup { << >>, <<" ">>, <<" ","W","A","R","N"," ">>, <<"\t","e","r","r">>,
               <<"W","a","r","n">>, <<"v","e","r","b","o","s","e">>, <<"N","O","T","I","C","E">>,
               <<"w","a","r","n","s">>, <<"e","r","r","o","r","_">> }

\* lines that are no JSON object: text that is no JSON, white space only, and
\* the JSON values [..], 12, "..", true and null
NonObjectLines ==
    {Other(k) : k \in {"malformed", "blank", "array", "number", "string", "bool", "null"}}

\* the empty line
EmptyLine == Other("empty")

Opt(key, values) == {<< >>} \cup {<< <<key, v>> >> : v \in values}

SeqsUpTo(S, n) == UNION {[1..k -> S] : k \in 0..n}

ExtraPairs ==
    { << <<"z","_","l","a","s","t">>, JString(<<"l","a","s","t">>) >>,
      << <<"a","_","f","i","r","s","t">>, JString(<<"f","i","r","s","t">>) >>,
      << <<"a","_","f","i","r","s","t">>, JNumber(FALSE, <<"1","0","0","0","0","0","0">>) >>,
      << <<"Z">>, JBool(TRUE) >>,
      << <<"L","e","v","e","l">>, JString(S_info) >>,
      << << >>, JNull >> }

\* objects with and without each recognised member, around up to MaxExtra others
StructLines ==
    { Obj(l \o x \o t \o m) :
        l \in Opt(K_level, {JString(S_info), JString(<< >>), JNumber(FALSE, <<"5">>)}),
        x \in SeqsUpTo(ExtraPairs, MaxExtra),
        t \in Opt(K_time, {JNull, JNumber(FALSE, <<"1","6","0","9","4","5","9","2","0","0">>),
                           JString(<< >>)}),
        m \in Opt(K_message, {JString(S_hello), JBool(FALSE)}) }

\* objects with every level string, alone or before a message
LevelLines ==
    { Obj(<< <<K_level, JString(l)>> >> \o m) :
        l \in LevelStrings, m \in Opt(K_message, {JString(S_hello)}) }

NoRules == << >>
OneRule == [w \in { <<"l">> } |-> <<"r","e","d">>]

----------------------------------------------------------------------------
(* Rendering one line: ParseAndFormatWithOptions applied to a line *)

NoResult == [op |-> "none"]

InitRender ==
    /\ line \in NonObjectLines \cup StructLines \cup LevelLines
    /\ colorRules = << >>
    /\ customColors \in {NoRules, OneRule}
    /\ convertTimestamps = FALSE
    /\ timestampFields = << >>
    /\ tzOffset = 0
    /\ minLevel = << >>
    /\ usePager = FALSE
    /\ pc = "call"
    /\ result = NoResult
    /\ stdin = << >>
    /\ stdout = << >>
    /\ outputLines = << >>
    /\ cancelled = FALSE
    /\ CacheInit
    /\ ret = "none"

Render ==
    /\ pc = "call"
    /\ \E iter \in Iterations(Extract(Unmarshal(line).m), customColors) :
          LET r == ParseAndFormatWithOptions(line, customColors, convertTimestamps,
                                             timestampFields, tzOffset, iter)
          IN  result' = [op |-> "render", err |-> r.err, out |-> r.out,
                         entry |-> r.entry, iter |-> iter]
    /\ pc' = "done"
    /\ UNCHANGED <<CacheVars, minLevel, usePager, colorRules, customColors, convertTimestamps, timestampFields,
                   tzOffset, line, stdin, stdout, outputLines, cancelled, ret>>

NextRender == Render

SpecRender == InitRender /\ [][NextRender]_vars

----------------------------------------------------------------------------
(* Properties of rendering (SpecRender) *)

Rendered == result.op = "render" /\ ~result.err

\* the last value written for key k in an object line
LastValue(doc, k) ==
    doc.pairs[CHOOSE i \in 1..Len(doc.pairs) :
                 /\ doc.pairs[i][1] = k
                 /\ \A j \in (i + 1)..Len(doc.pairs) : doc.pairs[j][1] # k][2]

KeysOf(doc) == {doc.pairs[i][1] : i \in 1..Len(doc.pairs)}

\* the segments expected before the fields: time, LEVEL, message, present ones only
HeadSegments(e) ==
    (IF formatTime(e.Time, tzOffset) # << >>
     THEN << ColorString("cyan", formatTime(e.Time, tzOffset)) >> ELSE << >>)
    \o (IF e.Level # << >> THEN << formatLevel(e.Level) >> ELSE << >>)
    \o (IF e.Message # << >>
        THEN << applyCustomColors(e.Message, customColors, result.iter.msg) >> ELSE << >>)

\* the key=value segments expected for the keys in the order ks
FieldSegments(e, ks) ==
    [i \in 1..Len(ks) |->
        FieldPart(e, ks[i], customColors, convertTimestamps, timestampFields, tzOffset,
                  result.iter.val[ks[i]])]

\* C5 (as claimed): ParseAndFormatWithOptions returns an error, and no formatted
\* string, for every line that is not a JSON object -- malformed text, an array,
\* and every scalar, null included -- and succeeds only for objects.
C5_ErrorUnlessObject ==
    result.op = "render" =>
        /\ result.err <=> line.kind # "object"
        /\ result.err => result.out = << >>

\* C7: the rendered line is the present segments among time, LEVEL, message and
\* the key=value fields, in that order, joined by single spaces; an absent time,
\* an absent or empty level, an absent message and an empty field bag contribute
\* no segment and no separator; no segment is empty, so the line neither starts
\* nor ends with a separator and has no two adjacent separators.
C7_SegmentsInOrder ==
    Rendered =>
        LET e == result.entry IN
        /\ K_time \notin KeysOf(line) => formatTime(e.Time, tzOffset) = << >>
        /\ K_level \notin KeysOf(line) => e.Level = << >>
        /\ K_message \notin KeysOf(line) => e.Message = << >>
        /\ \E ks \in Perms(DOMAIN e.Other) :
              LET segs == HeadSegments(e) \o FieldSegments(e, ks) IN
              /\ \A i \in 1..Len(segs) : segs[i] # << >>
              /\ result.out = Join(segs, <<" ">>)

C7_Witness ==
    /\ Rendered
    /\ formatTime(result.entry.Time, tzOffset) # << >>
    /\ result.entry.Level # << >>
    /\ result.entry.Message # << >>
    /\ Cardinality(DOMAIN result.entry.Other) = 2

\* C8: the key=value segments follow the other segments in strictly ascending
\* bytewise order of their keys, one segment for every key of the field bag,
\* whatever the order of the members in the line and of the map iteration.
C8_FieldsAscending ==
    Rendered =>
        LET e  == result.entry
            ks == CHOOSE p \in Perms(DOMAIN e.Other) :
                      \A i, j \in 1..Len(p) : i < j => StrLess(p[i], p[j])
        IN  result.out = Join(HeadSegments(e) \o FieldSegments(e, ks), <<" ">>)

\* the map iteration and the line both gave two keys in descending order
C8_Witness ==
    /\ Rendered
    /\ Len(result.iter.keys) = 2
    /\ StrLess(result.iter.keys[2], result.iter.keys[1])
    /\ Len(line.pairs) = 2
    /\ StrLess(line.pairs[2][1], line.pairs[1][1])

\* the line without the members level and message whose value is not a string
WithoutNonStrings(doc) ==
    Obj(SelectSeq(doc.pairs,
                  LAMBDA pr : ~(pr[1] \in {K_level, K_message}
                                /\ LastValue(doc, pr[1]).t # "string")))

\* C9: level, time and message (spelled exactly so) are taken out of the object
\* and are no fields; every other key is in the field bag with the value written
\* for it; a level or message that is not a string is dropped: the line renders
\* as it would without that member.
C9_ExtractionPartitions ==
    Rendered /\ line.kind = "object" =>
        LET e == result.entry IN
        /\ DOMAIN e.Other = KeysOf(line) \ {K_level, K_time, K_message}
        /\ \A k \in DOMAIN e.Other : e.Other[k] = LastValue(line, k)
        /\ e.Level = (IF K_level \in KeysOf(line) /\ LastValue(line, K_level).t = "string"
                      THEN LastValue(line, K_level).s ELSE << >>)
        /\ e.Message = (IF K_message \in KeysOf(line) /\ LastValue(line, K_message).t = "string"
                        THEN LastValue(line, K_message).s ELSE << >>)
        /\ e.Time = (IF K_time \in KeysOf(line) THEN LastValue(line, K_time) ELSE JNull)
        /\ result.out =
              ParseAndFormatWithOptions(WithoutNonStrings(line), customColors,
                  convertTimestamps, timestampFields, tzOffset, result.iter).out

\* a numeric level and a boolean message beside a key that differs from
\* "level" in case only
C9_Witness ==
    /\ Rendered
    /\ line.kind = "object"
    /\ K_level \in KeysOf(line) /\ LastValue(line, K_level).t = "number"
    /\ K_message \in KeysOf(line) /\ LastValue(line, K_message).t = "bool"
    /\ <<"L","e","v","e","l">> \in DOMAIN result.entry.Other

IsPrefix(p, str) == Len(p) <= Len(str) /\ SubSeq(str, 1, Len(p)) = p

\* the line starts with the segment seg
StartsWithSegment(seg) ==
    \/ result.out = seg
    \/ IsPrefix(seg \o <<" ">>, result.out)

\* the colour of each severity class
ClassColor(class) ==
    CASE class = LevelError -> "red"
      [] class = LevelWarn  -> "yellow"
      [] class = LevelInfo  -> "green"
      [] class = LevelDebug -> "blue"
      [] class = LevelTrace -> "magenta"

Recognised(level) == ToUpper(TrimSpace(level)) \in KnownLevelNames

\* C10 (as claimed): the level segment is the upper-cased level in the colour of
\* its severity class, and in the default colour only if the classifier does not
\* recognise the level.
C10_ColourOfClass ==
    Rendered /\ result.entry.Level # << >> /\ K_time \notin KeysOf(line) =>
        LET l == result.entry.Level IN
        StartsWithSegment(ColorString(IF Recognised(l) THEN ClassColor(parseLogLevel(l))
                                      ELSE "white",
                                      ToUpper(l)))

\* C10 (amended): the level segment is the upper-cased level, red for ERROR and
\* ERR, yellow for WARN and WARNING, green for INFO, blue for DEBUG, magenta for
\* TRACE (compared after upper-casing only), and in the default colour for every
\* other level, the aliases FATAL, CRIT, CRITICAL, WRN, INF, DBG and TRC included.
C10_ColourOfName ==
    Rendered /\ result.entry.Level # << >> /\ K_time \notin KeysOf(line) =>
        LET l == result.entry.Level
            u == ToUpper(l)
            c == IF u \in { <<"E","R","R","O","R">>, <<"E","R","R">> } THEN "red"
                 ELSE IF u \in { <<"W","A","R","N">>, <<"W","A","R","N","I","N","G">> } THEN "yellow"
                 ELSE IF u = <<"I","N","F","O">> THEN "green"
                 ELSE IF u = <<"D","E","B","U","G">> THEN "blue"
                 ELSE IF u = <<"T","R","A","C","E">> THEN "magenta"
                 ELSE "white"
        IN  StartsWithSegment(ColorString(c, u))

\* a lower-case alias of the ERROR class rendered in the default colour
C10_Witness ==
    /\ Rendered
    /\ result.entry.Level = <<"f","a","t","a","l">>
    /\ result.out = ColorString("white", <<"F","A","T","A","L">>)

----------------------------------------------------------------------------
(* The level filter alone: ShouldShowLogLevel and parseLogLevel applied *)

\* objects whose level is missing, no string, written twice, or spelled "Level"
OddLevelLines ==
    { Obj(<< >>),
      Obj(<< <<K_message, JString(S_hello)>> >>),
      Obj(<< <<K_level, JNumber(FALSE, <<"4">>)>> >>),
      Obj(<< <<K_level, JNull>> >>),
      Obj(<< <<K_level, JBool(TRUE)>> >>),
      Obj(<< <<K_level, JArray>> >>),
      Obj(<< <<K_level, JObject>> >>),
      Obj(<< <<K_level, JString(<<"d","e","b","u","g">>)>>, <<K_level, JNumber(FALSE, <<"4">>)>> >>),
      Obj(<< <<K_level, JNumber(FALSE, <<"4">>)>>, <<K_level, JString(<<"d","e","b","u","g">>)>> >>),
      Obj(<< << <<"L","e","v","e","l">>, JString(<<"d","e","b","u","g">>)>> >>) }

InitFilter ==
    /\ line \in NonObjectLines \cup {EmptyLine} \cup OddLevelLines \cup LevelLines
    /\ minLevel \in LevelStrings
    /\ colorRules = << >>
    /\ customColors = NoRules
    /\ convertTimestamps = FALSE
    /\ timestampFields = << >>
    /\ tzOffset = 0
    /\ usePager = FALSE
    /\ pc = "call"
    /\ result = NoResult
    /\ stdin = << >>
    /\ stdout = << >>
    /\ outputLines = << >>
    /\ cancelled = FALSE
    /\ CacheInit
    /\ ret = "none"

Filter ==
    /\ pc = "call"
    /\ result' = [op |-> "filter", show |-> ShouldShowLogLevel(line, minLevel)]
    /\ pc' = "done"
    /\ UNCHANGED <<CacheVars, minLevel, usePager, colorRules, customColors, convertTimestamps, timestampFields,
                   tzOffset, line, stdin, stdout, outputLines, cancelled, ret>>

Classify ==
    /\ pc = "call"
    /\ result' = [op |-> "classify", class |-> parseLogLevel(minLevel)]
    /\ pc' = "done"
    /\ UNCHANGED <<CacheVars, minLevel, usePager, colorRules, customColors, convertTimestamps, timestampFields,
                   tzOffset, line, stdin, stdout, outputLines, cancelled, ret>>

NextFilter == Filter \/ Classify

SpecFilter == InitFilter /\ [][NextFilter]_vars

\* the line is an object whose level is a string
HasStringLevel(doc) ==
    doc.kind = "object" /\ K_level \in KeysOf(doc) /\ LastValue(doc, K_level).t = "string"

\* C1: ShouldShowLogLevel returns true, whatever the minimum level, for a line
\* that is no JSON object, for an object without "level" and for an object
\* whose "level" is not a string.
C1_FailOpen ==
    result.op = "filter" /\ ~HasStringLevel(line) => result.show

\* a numeric level under the minimum level error
C1_Witness ==
    /\ result.op = "filter"
    /\ line = Obj(<< <<K_level, JNumber(FALSE, <<"4">>)>> >>)
    /\ minLevel = <<"e","r","r","o","r">>
    /\ result.show

\* C2: for an object with a string level L and a minimum level M the line is
\* shown exactly when the class of L is at least the class of M in the order
\* TRACE < DEBUG < INFO < WARN < ERROR; under "warning" exactly the levels of
\* the WARN and ERROR classes are shown.
C2_ShownIffAtLeast ==
    result.op = "filter" /\ HasStringLevel(line) =>
        LET L == LastValue(line, K_level).s IN
        /\ LevelTrace < LevelDebug /\ LevelDebug < LevelInfo
        /\ LevelInfo < LevelWarn /\ LevelWarn < LevelError
        /\ result.show <=> parseLogLevel(L) >= parseLogLevel(minLevel)
        /\ minLevel = <<"w","a","r","n","i","n","g">> =>
              (result.show <=>
                  ToUpper(TrimSpace(L)) \in
                      { <<"W","A","R","N">>, <<"W","A","R","N","I","N","G">>, <<"W","R","N">>,
                        <<"E","R","R","O","R">>, <<"E","R","R">>, <<"F","A","T","A","L">>,
                        <<"C","R","I","T">>, <<"C","R","I","T","I","C","A","L">> })

\* an info record hidden under the minimum level warning
C2_Witness ==
    /\ result.op = "filter"
    /\ HasStringLevel(line)
    /\ LastValue(line, K_level).s = S_info
    /\ minLevel = <<"w","a","r","n","i","n","g">>
    /\ ~result.show

\* the class of every name and alias
AliasClass ==
    [n \in KnownLevelNames |->
        IF n \in { <<"T","R","A","C","E">>, <<"T","R","C">> } THEN LevelTrace
        ELSE IF n \in { <<"D","E","B","U","G">>, <<"D","B","G">> } THEN LevelDebug
        ELSE IF n \in { <<"I","N","F","O">>, <<"I","N","F">> } THEN LevelInfo
        ELSE IF n \in { <<"W","A","R","N">>, <<"W","A","R","N","I","N","G">>, <<"W","R","N">> }
             THEN LevelWarn
        ELSE LevelError]

\* C3: parseLogLevel gives every string a class: after trimming white space and
\* upper-casing, the class of the name or alias, and INFO for every other string,
\* the empty one included; strings that differ only in letter case or in
\* surrounding white space get the same class.
C3_Classification ==
    result.op = "classify" =>
        LET n == ToUpper(TrimSpace(minLevel)) IN
        /\ result.class = (IF n \in KnownLevelNames THEN AliasClass[n] ELSE LevelInfo)
        /\ \A other \in LevelStrings :
              ToLower(TrimSpace(other)) = ToLower(TrimSpace(minLevel))
                  => parseLogLevel(other) = result.class

\* a padded upper-case alias classified as WARN
C3_Witness ==
    /\ result.op = "classify"
    /\ minLevel = <<" ","W","A","R","N"," ">>
    /\ result.class = LevelWarn

----------------------------------------------------------------------------
(* The processing loop: LogProcessor.Process *)

NL == "\n"

\* the text of a line that does not parse, as one token of the output
LineText(l) ==
    << [ malformed |-> "<text that is no JSON>", blank |-> "<white space>",
         array |-> "<a JSON array>", number |-> "<a JSON number>",
         string |-> "<a JSON string>", bool |-> "<a JSON boolean>",
         null |-> "null", object |-> "<a JSON object>", empty |-> "" ][l.kind] >>

\* the body of the loop for a parse error: the line dropped instead of printed
LineOutput_DropUnparsed(l, iter) ==
    LET r == ParseAndFormatWithOptions(l, customColors, convertTimestamps,
                                       timestampFields, tzOffset, iter)
    IN  IF l = EmptyLine THEN << >>
        ELSE IF r.err THEN << >>
        ELSE IF minLevel # << >> /\ ~ShouldShowLogLevel(l, minLevel) THEN << >>
        ELSE << r.out >>

\* what one pass of the loop body hands to AddLine for the line l: nothing for an
\* empty line, the line itself when it does not parse, nothing when the level
\* filter hides it, else the formatted line
LineOutput(l, iter) ==
    LET r == ParseAndFormatWithOptions(l, customColors, convertTimestamps,
                                       timestampFields, tzOffset, iter)
    IN  IF l = EmptyLine THEN << >>
        ELSE IF r.err THEN << LineText(l) >>
        ELSE IF minLevel # << >> /\ ~ShouldShowLogLevel(l, minLevel) THEN << >>
        ELSE << r.out >>

LoopLines ==
    { EmptyLine, Other("malformed"), Other("number"), Obj(<< >>),
      Obj(<< <<K_level, JString(<<"d","e","b","u","g">>)>>, <<K_message, JString(S_hello)>> >>),
      Obj(<< <<K_level, JString(<<"F","A","T","A","L">>)>>, << <<"Z">>, JBool(TRUE) >> >>),
      Obj(<< <<K_message, JString(<<"a","\n","b">>)>> >>) }

Init ==
    /\ minLevel \in { << >>, <<"w","a","r","n">>, <<"e","r","r","o","r">> }
    /\ usePager \in BOOLEAN
    /\ colorRules = << >>
    /\ customColors = NoRules
    /\ convertTimestamps = FALSE
    /\ timestampFields = << >>
    /\ tzOffset = 0
    /\ pc = "scan"
    /\ line = EmptyLine
    /\ result = NoResult
    /\ stdin = << >>
    /\ stdout = << >>
    /\ outputLines = << >>
    /\ cancelled = FALSE
    /\ CacheInit
    /\ ret = "none"

Config == <<minLevel, usePager, colorRules, customColors, convertTimestamps, timestampFields, tzOffset>>

\* the signal goroutine: SIGINT or SIGTERM arrives and cancel() is called
Cancel ==
    /\ pc \in {"scan", "body", "flush"}
    /\ ~cancelled
    /\ cancelled' = TRUE
    /\ UNCHANGED <<CacheVars, Config, pc, line, result, stdin, stdout, outputLines, ret>>

\* scanner.Scan() returns true with the next line, one of the lines of S
ScanLineFrom(S) ==
    /\ pc = "scan"
    /\ Len(stdin) < MaxLines
    /\ \E l \in S :
          /\ stdin' = Append(stdin, l)
          /\ line' = l
    /\ pc' = "body"
    /\ UNCHANGED <<CacheVars, Config, result, stdout, outputLines, cancelled, ret>>

ScanLine == ScanLineFrom(LoopLines)

\* scanner.Scan() returns false at the end of the input
ScanEOF ==
    /\ pc = "scan"
    /\ pc' = "flush"
    /\ UNCHANGED <<CacheVars, Config, line, result, stdin, stdout, outputLines, cancelled, ret>>

\* scanner.Scan() returns false and scanner.Err() is not nil
ScanError ==
    /\ pc = "scan"
    /\ pc' = "returned"
    /\ ret' = IF cancelled THEN "cancelled" ELSE "read error"
    /\ UNCHANGED <<CacheVars, Config, line, result, stdin, stdout, outputLines, cancelled>>

\* OutputHandler.AddLine for each of the (zero or one) strings of `out`
AddLines(out) ==
    IF usePager
    THEN /\ outputLines' = outputLines \o out
         /\ stdout' = stdout
    ELSE /\ stdout' = stdout \o (IF out = << >> THEN << >> ELSE out[1] \o << NL >>)
         /\ outputLines' = outputLines

\* the loop body if a line that does not parse ended Process with an error
Body_StopOnParseError ==
    /\ pc = "body"
    /\ IF cancelled
       THEN /\ pc' = "returned"
            /\ ret' = "cancelled"
            /\ UNCHANGED <<stdout, outputLines>>
       ELSE IF Unmarshal(line).err
       THEN /\ pc' = "returned"
            /\ ret' = "parse error"
            /\ UNCHANGED <<stdout, outputLines>>
       ELSE /\ \E iter \in Iterations(Extract(Unmarshal(line).m), customColors) :
                  AddLines(LineOutput(line, iter))
            /\ pc' = "scan"
            /\ ret' = ret
    /\ UNCHANGED <<CacheVars, Config, line, result, stdin, cancelled>>

\* the loop body if an observed cancellation flushed the buffer before the return
Body_FlushOnCancel ==
    /\ pc = "body"
    /\ IF cancelled
       THEN /\ pc' = "returned"
            /\ ret' = "cancelled"
            /\ stdout' = stdout \o Join(outputLines, << NL >>)
            /\ outputLines' = outputLines
       ELSE /\ \E iter \in Iterations(Extract(Unmarshal(line).m), customColors) :
                  AddLines(LineOutput(line, iter))
            /\ pc' = "scan"
            /\ ret' = ret
    /\ UNCHANGED <<CacheVars, Config, line, result, stdin, cancelled>>

\* one pass of the loop body, from the test of ctx.Done() to the next Scan
Body ==
    /\ pc = "body"
    /\ IF cancelled
       THEN /\ pc' = "returned"
            /\ ret' = "cancelled"
            /\ UNCHANGED <<stdout, outputLines>>
       ELSE /\ \E iter \in Iterations(Extract(Unmarshal(line).m), customColors) :
                  AddLines(LineOutput(line, iter))
            /\ pc' = "scan"
            /\ ret' = ret
    /\ UNCHANGED <<CacheVars, Config, line, result, stdin, cancelled>>

\* OutputHandler.Flush, the pager copying its input to standard output
Flush ==
    /\ pc = "flush"
    /\ pc' = "returned"
    /\ IF ~usePager
       THEN /\ ret' = "end of input"
            /\ stdout' = stdout
       ELSE \/ /\ stdout' = stdout \o Join(outputLines, << NL >>)
               /\ ret' = "end of input"
            \/ /\ stdout' = stdout
               /\ ret' = "pager error"
    /\ UNCHANGED <<CacheVars, Config, line, result, stdin, outputLines, cancelled>>

Next == Cancel \/ ScanLine \/ ScanEOF \/ ScanError \/ Body \/ Flush

Spec == Init /\ [][Next]_vars

----------------------------------------------------------------------------
(* Properties of the loop (Spec) *)

\* bufio.ScanLines: the lines of a stream, each ended by a newline, and a last
\* line without newline if it is not empty
RECURSIVE ScanLines(_)
ScanLines(stream) ==
    IF stream = << >> THEN << >>
    ELSE IF \E i \in 1..Len(stream) : stream[i] = NL
    THEN LET i == CHOOSE i \in 1..Len(stream) :
                      stream[i] = NL /\ \A j \in 1..(i - 1) : stream[j] # NL
         IN  << SubSeq(stream, 1, i - 1) >> \o ScanLines(SubSeq(stream, i + 1, Len(stream)))
    ELSE << stream >>

\* the texts of unparsed lines among the characters of a stream
UnparsedTexts == {LineText(l)[1] : l \in NonObjectLines \ {Other("null")}}

\* C4: a non-empty line whose parsing returns an error is handed to the output
\* once, as the line itself, whatever the minimum level, and the loop goes on to
\* read the next line; when Process has flushed at the end of the input, standard
\* output holds the unparsed lines of the input, each once, in input order.
C4_UnparsedPassedThrough ==
    /\ [](ret = "end of input" =>
            SelectSeq(stdout, LAMBDA c : c \in UnparsedTexts)
              = Join(SelectSeq([i \in 1..Len(stdin) |-> LineText(stdin[i])],
                               LAMBDA t : t[1] \in UnparsedTexts), << >>))
    /\ [][ ( /\ pc = "body" /\ pc' # "body" /\ ~cancelled
          /\ line # EmptyLine
          /\ Unmarshal(line).err )
        => ( /\ pc' = "scan"
             /\ ret' = "none"
             /\ IF usePager
                THEN outputLines' = Append(outputLines, LineText(line)) /\ stdout' = stdout
                ELSE stdout' = stdout \o LineText(line) \o << NL >>
                     /\ outputLines' = outputLines ) ]_vars

\* a line that is no JSON was printed under the minimum level error
C4_Witness ==
    /\ pc = "scan"
    /\ minLevel = <<"e","r","r","o","r">>
    /\ ~usePager
    /\ Len(stdin) = 2
    /\ stdin[2] = Other("malformed")
    /\ ScanLines(stdout) = << LineText(Other("number")), LineText(Other("malformed")) >>

\* the lines of the input that are neither empty nor hidden by the level filter
Shown(lines) ==
    SelectSeq(lines, LAMBDA l :
        /\ l # EmptyLine
        /\ Unmarshal(l).err \/ minLevel = << >> \/ ShouldShowLogLevel(l, minLevel))

\* o is the output line of the input line l
IsOutputOf(o, l) ==
    IF Unmarshal(l).err THEN o = LineText(l)
    ELSE \E iter \in Iterations(Extract(Unmarshal(l).m), customColors) :
            o = ParseAndFormatWithOptions(l, customColors, convertTimestamps,
                                          timestampFields, tzOffset, iter).out

\* C6 (as claimed): when Process has reached the end of the input and returned
\* without error, the lines written to standard output are, in input order, one
\* line for every input line that is neither empty nor hidden by the level
\* filter, in direct mode and in pager mode alike.
C6_OneLinePerShownLine ==
    ret = "end of input" =>
        LET out == ScanLines(stdout)
            exp == Shown(stdin)
        IN  /\ Len(out) = Len(exp)
            /\ \A i \in 1..Len(exp) : IsOutputOf(out[i], exp[i])

----------------------------------------------------------------------------
(* Colour rules: main's parsing of the --color flags, then rendering twice *)

MaxRules == 2       \* most --color flags on a command line

\* strings.SplitN(rule, ":", 2): the rule cut at its first colon, or the rule
\* alone if it has none
SplitN2(rule) ==
    IF \E i \in 1..Len(rule) : rule[i] = ":"
    THEN LET i == CHOOSE i \in 1..Len(rule) :
                      rule[i] = ":" /\ \A j \in 1..(i - 1) : rule[j] # ":"
         IN  << SubSeq(rule, 1, i - 1), SubSeq(rule, i + 1, Len(rule)) >>
    ELSE << rule >>

\* customColors[word] = color
MapSet(m, word, color) ==
    [w \in DOMAIN m \cup {word} |-> IF w = word THEN color ELSE m[w]]

\* the loop over the flags with an earlier rule for a word kept
RECURSIVE ParseColorRules_FirstWins(_, _)
ParseColorRules_FirstWins(rules, m) ==
    IF rules = << >> THEN [ok |-> TRUE, m |-> m]
    ELSE LET parts == SplitN2(Head(rules)) IN
         IF Len(parts) # 2 THEN [ok |-> FALSE, m |-> m]
         ELSE ParseColorRules_FirstWins(Tail(rules),
                 IF parts[2] \in DOMAIN m THEN m ELSE MapSet(m, parts[2], parts[1]))

\* main's loop over colorRules: the map built so far is m; ok is FALSE when a
\* rule without colon made the program exit
RECURSIVE ParseColorRules(_, _)
ParseColorRules(rules, m) ==
    IF rules = << >> THEN [ok |-> TRUE, m |-> m]
    ELSE LET parts == SplitN2(Head(rules)) IN
         IF Len(parts) # 2 THEN [ok |-> FALSE, m |-> m]
         ELSE ParseColorRules(Tail(rules), MapSet(m, parts[2], parts[1]))

R_red_ab   == <<"r","e","d",":","a","b">>
R_green_b  == <<"g","r","e","e","n",":","b">>
R_green_ab == <<"g","r","e","e","n",":","a","b">>
R_cyan_q   == <<"c","y","a","n",":","q">>
R_blue_m   == <<"b","l","u","e",":","m">>
R_invalid  == <<"i","n","v","a","l","i","d">>

RuleStrings == {R_red_ab, R_green_b, R_green_ab, R_cyan_q, R_blue_m, R_invalid}

S_ab == <<"a","b">>
S_b  == <<"b">>
S_q  == <<"q">>

\* lines whose message or field value holds rule words, and one that holds none
ColorLines ==
    { Obj(<< <<K_message, JString(S_ab)>> >>),
      Obj(<< <<K_message, JString(<<"q","x","a","b","y","b">>)>> >>),
      Obj(<< <<K_message, JString(S_hello)>> >>),
      Obj(<< << <<"k">>, JString(S_ab)>> >>),
      Obj(<< <<K_message, JString(S_b)>>, << <<"k">>, JString(S_q)>> >>) }

InitColor ==
    /\ line \in ColorLines
    /\ colorRules \in SeqsUpTo(RuleStrings, MaxRules)
    /\ customColors = NoRules
    /\ convertTimestamps = FALSE
    /\ timestampFields = << >>
    /\ tzOffset = 0
    /\ minLevel = << >>
    /\ usePager = FALSE
    /\ pc = "flags"
    /\ result = NoResult
    /\ stdin = << >>
    /\ stdout = << >>
    /\ outputLines = << >>
    /\ cancelled = FALSE
    /\ CacheInit
    /\ ret = "none"

\* main: the colour rules are parsed into the map, or the program exits
ParseFlags ==
    /\ pc = "flags"
    /\ LET r == ParseColorRules(colorRules, NoRules) IN
       IF r.ok
       THEN customColors' = r.m /\ pc' = "call" /\ ret' = "none"
       ELSE customColors' = customColors /\ pc' = "exited" /\ ret' = "exit 1"
    /\ UNCHANGED <<CacheVars, minLevel, usePager, colorRules, convertTimestamps, timestampFields,
                   tzOffset, line, result, stdin, stdout, outputLines, cancelled>>

\* the same line rendered a second time under the same configuration
RenderAgain ==
    /\ pc = "done"
    /\ result.op = "render"
    /\ \E iter \in Iterations(Extract(Unmarshal(line).m), customColors) :
          LET r == ParseAndFormatWithOptions(line, customColors, convertTimestamps,
                                             timestampFields, tzOffset, iter)
          IN  result' = [op |-> "again", err |-> r.err, out |-> r.out,
                         entry |-> r.entry, iter |-> iter, first |-> result.out]
    /\ pc' = "again"
    /\ UNCHANGED <<CacheVars, minLevel, usePager, colorRules, customColors, convertTimestamps,
                   timestampFields, tzOffset, line, stdin, stdout, outputLines,
                   cancelled, ret>>

NextColor == ParseFlags \/ Render \/ RenderAgain

SpecColor == InitColor /\ [][NextColor]_vars

----------------------------------------------------------------------------
(* Properties of the colour rules (SpecColor) *)

\* C11 (as claimed): rendering the same line twice under the same configuration
\* gives the same string, for every rule set, rule sets with overlapping words
\* included.
C11_SameStringTwice ==
    result.op = "again" => result.out = result.first

\* a line was rendered, the first or the second time
RenderedOnce == result.op \in {"render", "again"} /\ ~result.err

\* the rendered line had a message and nothing else
MessageOnly ==
    /\ RenderedOnce
    /\ result.entry.Message # << >>
    /\ result.entry.Level = << >>
    /\ result.entry.Time = JNull
    /\ DOMAIN result.entry.Other = {}

\* strings.Count(s, w): the number of occurrences of the word w in s, counted
\* left to right without overlap; one more than the length of s for the empty word
RECURSIVE CountOcc(_, _)
CountOcc(s, w) ==
    IF w = << >> THEN Len(s) + 1
    ELSE IF Len(s) < Len(w) THEN 0
    ELSE IF SubSeq(s, 1, Len(w)) = w
         THEN 1 + CountOcc(SubSeq(s, Len(w) + 1, Len(s)), w)
         ELSE CountOcc(Tail(s), w)

\* the rule words that occur in the text
WordsIn(text) == {w \in DOMAIN customColors : Contains(text, w)}

\* C12 (as claimed): applyCustomColors wraps the whole text in white when there
\* is no rule or no rule word occurs in the text; otherwise every occurrence in
\* the text of every rule word is replaced by the word wrapped in the colour of
\* its rule, so the coloured word occurs in the result as often as the word
\* occurs in the text.
C12_EveryWordColoured ==
    MessageOnly =>
        LET text == result.entry.Message IN
        IF WordsIn(text) = {}
        THEN result.out = ColorString("white", text)
        ELSE \A w \in WordsIn(text) :
                CountOcc(result.out, getColorFunc(customColors[w], w)) = CountOcc(text, w)

\* the flags were parsed without exit
FlagsParsed == pc \in {"call", "done", "again"}

\* the colour and the word of the i-th flag
RuleColor(i) == SplitN2(colorRules[i])[1]
RuleWord(i)  == SplitN2(colorRules[i])[2]

\* C13 (as claimed): every rule of the list is kept in the rule set, several
\* rules for the same word included; none is overwritten by a later one.
C13_AllRulesKept ==
    FlagsParsed =>
        \A i \in 1..Len(colorRules) :
            /\ RuleWord(i) \in DOMAIN customColors
            /\ customColors[RuleWord(i)] = RuleColor(i)

\* C13 (amended): the rule set holds one colour for every word of the list, the
\* colour of the last rule given for that word; earlier rules for the word are
\* overwritten, and a text in which only that word occurs is rendered with the
\* occurrences of the word in the colour of the last rule.
C13_LastRuleWins ==
    FlagsParsed =>
        /\ DOMAIN customColors = {RuleWord(i) : i \in 1..Len(colorRules)}
        /\ \A i \in 1..Len(colorRules) :
              (\A j \in (i + 1)..Len(colorRules) : RuleWord(j) # RuleWord(i))
                  => customColors[RuleWord(i)] = RuleColor(i)
        /\ \A i \in 1..Len(colorRules) :
              ( /\ MessageOnly
                /\ WordsIn(result.entry.Message) = {RuleWord(i)}
                /\ \A v \in DOMAIN customColors \ {RuleWord(i)} :
                      ~Contains(ReplaceAll(result.entry.Message, RuleWord(i),
                                           getColorFunc(customColors[RuleWord(i)], RuleWord(i))), v)
                /\ \A j \in (i + 1)..Len(colorRules) : RuleWord(j) # RuleWord(i) )
                  => result.out = ReplaceAll(result.entry.Message, RuleWord(i),
                                             getColorFunc(RuleColor(i), RuleWord(i)))

\* red:ab followed by green:ab, and the message "ab" rendered green
C13_Witness ==
    /\ colorRules = << R_red_ab, R_green_ab >>
    /\ result.op = "render"
    /\ result.entry.Message = S_ab
    /\ result.out = ColorString("green", S_ab)

----------------------------------------------------------------------------
(* formatTime applied to the time member of a line, under a local time zone *)

\* numeric time values: the examples of the tests, the values around 1e10 on
\* both sides of zero, and instants before the epoch
TimeNumbers ==
    { JNumber(FALSE, <<"0">>),
      JNumber(FALSE, <<"1","6","0","9","4","5","9","2","0","0">>),
      JNumber(FALSE, <<"1","7","4","9","9","7","5","4","8","2","3","3","7">>),
      JNumber(FALSE, <<"1","7","6","0","1","3","4","4","1","6","6","2","9">>),
      JNumber(FALSE, <<"9","9","9","9","9","9","9","9","9","9">>),
      JNumber(FALSE, <<"1","0","0","0","0","0","0","0","0","0","0">>),
      JNumber(FALSE, <<"1","0","0","0","0","0","0","0","0","0","1">>),
      JNumber(FALSE, <<"9","2","2","3","3","7","2","0","3","6","8","5","4">>),
      JNumber(FALSE, <<"9","2","2","3","3","7","2","0","3","6","8","5","5">>),
      JNumber(FALSE, <<"2","0","0","0","0","0","0","0","0","0","0","0","0","0">>),
      JNumber(TRUE, <<"1">>),
      JNumber(TRUE, <<"8","6","4","0","0">>),
      JNumber(TRUE, <<"1","6","0","9","4","5","9","2","0","0">>),
      JNumber(TRUE, <<"1","0","0","0","0","0","0","0","0","0","0">>),
      JNumber(TRUE, <<"1","0","0","0","0","0","0","0","0","0","1">>),
      JNumber(TRUE, <<"2","0","0","0","0","0","0","0","0","0","0">>) }

\* string time values: RFC3339 with Z and with offsets, with a fraction, without
\* zone, and strings that match neither layout
TimeStrings ==
    { JString(<<"2","0","2","3","-","0","1","-","0","1","T","1","2",":","0","0",":","0","0","Z">>),
      JString(<<"2","0","2","3","-","0","1","-","0","1","T","1","2",":","0","0",":","0","0","+","0","2",":","0","0">>),
      JString(<<"2","0","2","3","-","0","1","-","0","1","T","2","3",":","3","0",":","0","0","-","0","5",":","0","0">>),
      JString(<<"2","0","2","4","-","0","2","-","2","9","T","0","0",":","1","5",":","3","0","+","0","5",":","3","0">>),
      JString(<<"2","0","2","3","-","0","1","-","0","1","T","1","2",":","0","0",":","0","0",".","2","5","0","Z">>),
      JString(<<"2","0","2","3","-","0","1","-","0","1","T","1","2",":","0","0",":","0","0">>),
      JString(<<"2","0","2","3","-","0","1","-","0","1"," ","1","2",":","0","0",":","0","0">>),
      JString(<<"2","0","2","3","-","0","2","-","3","0","T","1","2",":","0","0",":","0","0","Z">>),
      JString(<<"2","0","2","3","-","0","1","-","0","1","T","1","2",":","0","0",":","0","0","+","2">>),
      JString(<<"s","o","o","n">>),
      JString(<< >>) }

TimeValues == TimeNumbers \cup TimeStrings \cup {JNull, JBool(TRUE), JBool(FALSE), JArray, JObject}

\* lines with each time value, and a line without time
TimeLines == {Obj(<< <<K_time, v>> >>) : v \in TimeValues} \cup {Obj(<< >>)}

\* offsets of the local zone of the process, seconds east of UTC
TzOffsets == {-18000, 0, 7200, 19800}

InitTime ==
    /\ line \in TimeLines
    /\ tzOffset \in TzOffsets
    /\ colorRules = << >>
    /\ customColors = NoRules
    /\ convertTimestamps = FALSE
    /\ timestampFields = << >>
    /\ minLevel = << >>
    /\ usePager = FALSE
    /\ pc = "call"
    /\ result = NoResult
    /\ stdin = << >>
    /\ stdout = << >>
    /\ outputLines = << >>
    /\ cancelled = FALSE
    /\ CacheInit
    /\ ret = "none"

\* formatTime(entry.Time) for the time member of the line
FormatTime ==
    /\ pc = "call"
    /\ LET timeVal == Extract(Unmarshal(line).m).Time IN
       result' = [op |-> "formatTime", timeVal |-> timeVal,
                  out |-> formatTime(timeVal, tzOffset)]
    /\ pc' = "done"
    /\ UNCHANGED <<CacheVars, minLevel, usePager, colorRules, customColors, convertTimestamps,
                   timestampFields, tzOffset, line, stdin, stdout, outputLines,
                   cancelled, ret>>

NextTime == FormatTime \/ Render

SpecTime == InitTime /\ [][NextTime]_vars

----------------------------------------------------------------------------
(* Properties of formatTime (SpecTime) *)

Formatted == result.op = "formatTime"

\* the calendar time, in a zone `offset` seconds east of UTC, of the instant
\* that the whole number (neg, digits) denotes in seconds and in milliseconds
SecondsText(neg, digits, offset) ==
    FormatInstant(FloorDivMod(neg, digits, 86400)[1], FloorDivMod(neg, digits, 86400)[2],
                  offset)

MillisText(neg, digits, offset) ==
    FormatInstant(FloorDivMod(neg, digits, 86400000)[1],
                  FloorDivMod(neg, digits, 86400000)[2] \div 1000, offset)

\* |v| > 1e10 for the whole number with these digits
MagnitudeAbove1e10(digits) ==
    \/ Len(digits) > 11
    \/ Len(digits) = 11 /\ digits # <<"1","0","0","0","0","0","0","0","0","0","0">>

\* C14 (as claimed): a numeric time value is taken as milliseconds exactly when
\* its magnitude is above 1e10 and as seconds otherwise, for negative values as
\* for positive ones; 1e10 itself is seconds.
C14_UnitByMagnitude ==
    (Formatted /\ result.timeVal.t = "number") =>
        LET v == result.timeVal IN
        result.out = IF MagnitudeAbove1e10(v.digits)
                     THEN MillisText(v.neg, v.digits, tzOffset)
                     ELSE SecondsText(v.neg, v.digits, tzOffset)

\* C15 (as claimed): a numeric time value is rendered as the UTC calendar time
\* of its instant whatever the local zone of the process: 1609459200 gives
\* 2021-01-01 00:00:00 and 1749975482337 gives 2025-06-15 08:18:02.
C15_NumbersInUTC ==
    (Formatted /\ result.timeVal.t = "number") =>
        LET v == result.timeVal IN
        /\ result.out = IF Above1e10(v.neg, v.digits)
                        THEN MillisText(v.neg, v.digits, 0)
                        ELSE SecondsText(v.neg, v.digits, 0)
        /\ v = JNumber(FALSE, <<"1","6","0","9","4","5","9","2","0","0">>)
              => result.out = <<"2","0","2","1","-","0","1","-","0","1"," ",
                                "0","0",":","0","0",":","0","0">>
        /\ v = JNumber(FALSE, <<"1","7","4","9","9","7","5","4","8","2","3","3","7">>)
              => result.out = <<"2","0","2","5","-","0","6","-","1","5"," ",
                                "0","8",":","1","8",":","0","2">>

\* the day number, counted from 1970-01-01, of a civil date
DaysFromCivil(year, month, day) ==
    LET y   == IF month <= 2 THEN year - 1 ELSE year
        era == y \div 400
        yoe == y - era * 400
        doy == (153 * (IF month > 2 THEN month - 3 ELSE month + 9) + 2) \div 5 + day - 1
        doe == yoe * 365 + yoe \div 4 - yoe \div 100 + doy
    IN  era * 146097 + doe - 719468

\* seconds east of UTC of the zone "Z" or "+hh:mm" or "-hh:mm"
ZoneSeconds(z) ==
    IF z = <<"Z">> THEN 0
    ELSE (IF z[1] = "-" THEN -1 ELSE 1) * (Num2(z, 2) * 3600 + Num2(z, 5) * 60)

\* the UTC calendar time of the instant an RFC3339 string denotes
UtcText(s) ==
    FormatInstant(DaysFromCivil(Num2(s, 1) * 100 + Num2(s, 3), Num2(s, 6), Num2(s, 9)),
                  Num2(s, 12) * 3600 + Num2(s, 15) * 60 + Num2(s, 18),
                  0 - ZoneSeconds(AfterSeconds(s)))

IsRFC3339(s) == ParsesDateTime(s) /\ ParsesZone(AfterSeconds(s))

\* C16 (as claimed): a string time value that parses as RFC3339 is rendered as
\* the UTC calendar time of its instant, also when it is written with a zone
\* offset other than zero.
C16_StringsInUTC ==
    (Formatted /\ result.timeVal.t = "string" /\ IsRFC3339(result.timeVal.s)) =>
        result.out = UtcText(result.timeVal.s)

\* C17: formatTime returns the empty string for an absent or null value, so that
\* no time segment is rendered; a string that matches neither layout unchanged;
\* and true, false, an array and an object as their %v text.
C17_TotalFallbacks ==
    /\ Formatted =>
          LET v == result.timeVal IN
          /\ v.t = "null" => result.out = << >>
          /\ ( /\ v.t = "string"
               /\ ~IsRFC3339(v.s)
               /\ ~(ParsesDateTime(v.s) /\ AfterSeconds(v.s) = << >>) ) => result.out = v.s
          /\ v = JBool(TRUE) => result.out = <<"t","r","u","e">>
          /\ v = JBool(FALSE) => result.out = <<"f","a","l","s","e">>
          /\ v = JArray => result.out = <<"[","]">>
          /\ v = JObject => result.out = <<"m","a","p","[","]">>
    /\ (Rendered /\ result.entry.Time = JNull) => result.out = << >>
    /\ (Rendered /\ result.entry.Time = JString(<<"s","o","o","n">>))
          => result.out = ColorString("cyan", <<"s","o","o","n">>)

\* the string "soon" came back unchanged
C17_Witness ==
    /\ Formatted
    /\ result.timeVal = JString(<<"s","o","o","n">>)
    /\ result.out = <<"s","o","o","n">>

----------------------------------------------------------------------------
(* Timestamp conversion of fields: rendering under --convert-timestamps *)

MaxFieldNames == 2  \* most names in the timestamp field list

K_validUntil == <<"v","a","l","i","d","U","n","t","i","l">>
K_ValidUntil == <<"V","a","l","i","d","U","n","t","i","l">>
K_expires    == <<"e","x","p","i","r","e","s">>
K_timestamp  == <<"t","i","m","e","s","t","a","m","p">>
K_user       == <<"u","s","e","r">>
F_validuntil == <<"v","a","l","i","d","u","n","t","i","l">>
F_EXPIRES    == <<"E","X","P","I","R","E","S">>
S_rfc        == <<"2","0","2","3","-","0","1","-","0","1","T","1","2",":","0","0",":","0","0","Z">>
S_soon       == <<"s","o","o","n">>

N_validUntil == JNumber(FALSE, <<"1","7","6","0","1","3","4","4","1","6","6","2","9">>)
N_expires    == JNumber(FALSE, <<"1","6","0","9","4","5","9","2","0","0">>)
N_million    == JNumber(FALSE, <<"1","0","0","0","0","0","0">>)
N_small      == JNumber(TRUE, <<"4","2">>)

\* field names as records write them and as the list writes them
ConvertKeys == {K_validUntil, K_ValidUntil, K_expires, K_timestamp, K_user}
FieldNames  == {K_validUntil, F_validuntil, K_expires, F_EXPIRES}

ConvertValues ==
    { N_validUntil, N_expires, N_million, N_small, JString(S_rfc), JString(S_soon),
      JNull, JBool(TRUE) }

\* the line of TestTimestampFieldConversionInLogs
L_token ==
    Obj(<< <<K_level, JString(S_info)>>, <<K_message, JString(S_hello)>>,
           <<K_validUntil, N_validUntil>> >>)

\* lines with one field, and the line of the test
ConvertLines == {Obj(<< <<k, v>> >>) : k \in ConvertKeys, v \in ConvertValues} \cup {L_token}

InitConvert ==
    /\ line \in ConvertLines
    /\ convertTimestamps \in BOOLEAN
    /\ timestampFields \in SeqsUpTo(FieldNames, MaxFieldNames)
    /\ tzOffset \in {-18000, 0}
    /\ colorRules = << >>
    /\ customColors = NoRules
    /\ minLevel = << >>
    /\ usePager = FALSE
    /\ pc = "call"
    /\ result = NoResult
    /\ stdin = << >>
    /\ stdout = << >>
    /\ outputLines = << >>
    /\ cancelled = FALSE
    /\ CacheInit
    /\ ret = "none"

SpecConvert == InitConvert /\ [][NextRender]_vars

----------------------------------------------------------------------------
(* Properties of the timestamp conversion of fields (SpecConvert) *)

\* the rendered line had one field and nothing else
OneField ==
    /\ Rendered
    /\ Len(line.pairs) = 1
    /\ line.pairs[1][1] \notin {K_level, K_time, K_message}

FieldKey   == line.pairs[1][1]
FieldValue == line.pairs[1][2]

\* the field's key is, ignoring letter case, a name of the list, and the toggle is on
Qualifies ==
    /\ convertTimestamps
    /\ \E i \in 1..Len(timestampFields) : ToLower(timestampFields[i]) = ToLower(FieldKey)

\* key=value as rendered without colour rules, for the value text s
FieldText(key, s) ==
    ColorString("magenta", key) \o <<"=">> \o ColorString("white", ColorString("yellow", s))

\* C18: a field is rendered in converted form only if the toggle is on and its
\* key is, ignoring letter case, in the field list; otherwise -- toggle off, list
\* empty, key not in the list -- it is rendered as its plain %v text, also for
\* keys that isTimestampField accepts.
C18_ExplicitListOnly ==
    (OneField /\ ~Qualifies) => result.out = FieldText(FieldKey, Sprintf_v(FieldValue))

\* "expires" is accepted by the heuristic, the toggle is on, the list names
\* another field, and the value is rendered plain
C18_Witness ==
    /\ OneField
    /\ convertTimestamps
    /\ timestampFields = << K_validUntil >>
    /\ FieldKey = K_expires
    /\ isTimestampField(FieldKey)
    /\ FieldValue = N_expires
    /\ result.out = FieldText(K_expires, <<"1",".","6","0","9","4","5","9","2","e","+","0","9">>)

\* C19: a field that qualifies is rendered as "<converted> (<original>)" exactly
\* when formatTime of its value is not empty and differs from the %v text of
\* the value, and as the %v text alone otherwise; the %v text is always part of
\* the rendered value.
C19_ConvertedAndOriginal ==
    (OneField /\ Qualifies) =>
        LET converted == formatTime(FieldValue, tzOffset)
            original  == Sprintf_v(FieldValue)
        IN  /\ result.out =
                 FieldText(FieldKey,
                           IF converted # << >> /\ converted # original
                           THEN converted \o <<" ", "(">> \o original \o <<")">>
                           ELSE original)
            /\ FieldValue = JString(S_soon) => result.out = FieldText(FieldKey, S_soon)
            /\ FieldValue = JNull => result.out = FieldText(FieldKey, <<"<","n","i","l",">">>)
            /\ FieldValue = JBool(TRUE) => result.out = FieldText(FieldKey, <<"t","r","u","e">>)
            /\ FieldValue = JString(S_rfc)
                  => result.out = FieldText(FieldKey,
                        WallClock(S_rfc) \o <<" ", "(">> \o S_rfc \o <<")">>)

\* ValidUntil under the list [validuntil]: the RFC3339 string with its original
C19_Witness ==
    /\ OneField
    /\ Qualifies
    /\ FieldKey = K_ValidUntil
    /\ timestampFields = << F_validuntil >>
    /\ FieldValue = JString(S_rfc)
    /\ result.out = FieldText(K_ValidUntil,
          <<"2","0","2","3","-","0","1","-","0","1"," ","1","2",":","0","0",":","0","0">>
              \o <<" ", "(">> \o S_rfc \o <<")">>)

\* the %v text of the numbers of the tests
T_validUntil == <<"1",".","7","6","0","1","3","4","4","1","6","6","2","9","e","+","1","2">>
T_expires    == <<"1",".","6","0","9","4","5","9","2","e","+","0","9">>
T_million    == <<"1","e","+","0","6">>
T_small      == <<"-","4","2">>

D_validUntil == <<"2","0","2","5","-","1","0","-","1","0"," ","2","2",":","1","3",":","3","6">>

\* C20 (as claimed): {"validUntil":1760134416629} under the list [validUntil]
\* is rendered as 2025-10-10 22:13:36 (1760134416629), the original being the
\* decimal digits of the input; here with the local zone at UTC.
C20_DecimalOriginal ==
    ( /\ OneField
      /\ Qualifies
      /\ tzOffset = 0
      /\ FieldKey = K_validUntil
      /\ FieldValue = N_validUntil )
        => result.out = FieldText(K_validUntil,
                                  D_validUntil \o <<" ", "(">> \o N_validUntil.digits \o <<")">>)

\* C20 (amended): the original of a whole JSON number is the %v text of its
\* float64: its decimal digits while it has at most six of them, and from 1e6
\* on the exponent form.  {"validUntil":1760134416629} under the list
\* [validUntil] is rendered as <local time> (1.760134416629e+12), the local time
\* being 2025-10-10 22:13:36 with the local zone at UTC.
C20_FloatOriginal ==
    /\ (OneField /\ Qualifies /\ FieldValue = N_validUntil) =>
          /\ result.out = FieldText(FieldKey,
                MillisText(FALSE, N_validUntil.digits, tzOffset)
                    \o <<" ", "(">> \o T_validUntil \o <<")">>)
          /\ tzOffset = 0 =>
                result.out = FieldText(FieldKey,
                                D_validUntil \o <<" ", "(">> \o T_validUntil \o <<")">>)
    /\ (OneField /\ ~Qualifies /\ FieldValue.t = "number") =>
          result.out = FieldText(FieldKey,
                CASE FieldValue = N_validUntil -> T_validUntil
                  [] FieldValue = N_expires    -> T_expires
                  [] FieldValue = N_million    -> T_million
                  [] FieldValue = N_small      -> T_small)

\* the line of the scenario rendered with the local zone at UTC
C20_Witness ==
    /\ OneField
    /\ convertTimestamps
    /\ timestampFields = << K_validUntil >>
    /\ tzOffset = 0
    /\ FieldKey = K_validUntil
    /\ FieldValue = N_validUntil
    /\ result.out = FieldText(K_validUntil,
                              D_validUntil \o <<" ", "(">> \o T_validUntil \o <<")">>)

----------------------------------------------------------------------------
(* Properties of the message and of field values under colour rules (SpecColor) *)

\* the message with every occurrence of the rule word w replaced by the coloured word
Replaced(msg, w) == ReplaceAll(msg, w, getColorFunc(customColors[w], w))

RECURSIVE StripEscapes(_)
StripEscapes(s) ==
    IF s = << >> THEN << >>
    ELSE IF /\ Len(s) >= 3
            /\ s[1] = "ESC"
            /\ s[2] = "["
            /\ \E i \in 3..Len(s) : s[i] = "m" /\ \A j \in 3..(i - 1) : IsDigit(s[j])
         THEN LET i == CHOOSE i \in 3..Len(s) :
                           s[i] = "m" /\ \A j \in 3..(i - 1) : IsDigit(s[j])
              IN  StripEscapes(SubSeq(s, i + 1, Len(s)))
         ELSE << Head(s) >> \o StripEscapes(Tail(s))

\* the rendered line had one field with a string value and nothing else
OneStringField ==
    /\ RenderedOnce
    /\ Len(line.pairs) = 1
    /\ line.pairs[1][1] \notin {K_level, K_time, K_message}
    /\ line.pairs[1][2].t = "string"

\* C29 (as claimed): rule words are matched against the text only, never against
\* colour sequences: with the colour sequences removed, a rendered field is
\* key=value, also when a rule word such as "m" occurs in a colour sequence.
C29_MarkersNeverMatched ==
    OneStringField =>
        StripEscapes(result.out) = line.pairs[1][1] \o <<"=">> \o line.pairs[1][2].s

----------------------------------------------------------------------------
(* Colour flags that are not of the form color:word *)

R_empty   == << >>
R_noword  == <<"r","e","d",":">>
R_nocolor == <<":","b">>

FlagStrings == {R_red_ab, R_invalid, R_empty, R_noword, R_nocolor}

InitFlags ==
    /\ line \in ColorLines
    /\ colorRules \in SeqsUpTo(FlagStrings, MaxRules)
    /\ customColors = NoRules
    /\ convertTimestamps = FALSE
    /\ timestampFields = << >>
    /\ tzOffset = 0
    /\ minLevel = << >>
    /\ usePager = FALSE
    /\ pc = "flags"
    /\ result = NoResult
    /\ stdin = << >>
    /\ stdout = << >>
    /\ outputLines = << >>
    /\ cancelled = FALSE
    /\ CacheInit
    /\ ret = "none"

SpecFlags == InitFlags /\ [][NextColor]_vars

\* the rule has a colon with a non-empty colour before it and a non-empty word after
WellFormed(rule) ==
    /\ Len(SplitN2(rule)) = 2
    /\ SplitN2(rule)[1] # << >>
    /\ SplitN2(rule)[2] # << >>

\* C22 (as claimed): a rule is installed into the rule set, and reaches the
\* colorizer, only if it is color:word with a non-empty colour and a non-empty
\* word; with a rule such as "invalid", "", "red:" or ":b" on the command line
\* the program exits and nothing is rendered.
C22_OnlyWellFormedRules ==
    /\ FlagsParsed => \A i \in 1..Len(colorRules) : WellFormed(colorRules[i])
    /\ RenderedOnce => \A w \in DOMAIN customColors : w # << >> /\ customColors[w] # << >>
    /\ (\E i \in 1..Len(colorRules) : ~WellFormed(colorRules[i])) => pc \in {"flags", "exited"}

\* ===========================================================================
\* Shutdown after a signal (SpecLive)
\* ===========================================================================

\* The loop with the fairness the program itself provides: a loop body that
\* has a line runs to its end, and Flush, once reached, runs. Whether
\* scanner.Scan() returns is up to the writer of standard input: a read of an
\* open pipe that delivers nothing blocks, so the scan actions carry no
\* fairness.
SpecLive == Init /\ [][Next]_vars /\ WF_vars(Body) /\ WF_vars(Flush)

\* C23: once SIGINT or SIGTERM has been received (cancel() was called), the
\* processing loop eventually stops and Process returns, whatever the input
\* does afterwards, an input that stays open and silent included.
C23_ShutdownAfterSignal == cancelled ~> (pc = "returned")

\* ===========================================================================
\* Lines whose content is wrong in some way (SpecStream)
\* ===========================================================================

K_verbose == <<"v","e","r","b","o","s","e">>
S_warn    == <<"w","a","r","n">>
S_loud    == <<"l","o","u","d">>

\* malformed JSON; no level; a level that is a number; an unknown level; a time
\* that does not parse, on a debug and on an error line; an info line
StreamLines ==
    { Other("malformed"),
      Obj(<< <<K_message, JString(S_hello)>> >>),
      Obj(<< <<K_level, JNumber(FALSE, <<"5">>)>>, <<K_message, JString(S_hello)>> >>),
      Obj(<< <<K_level, JString(K_verbose)>> >>),
      Obj(<< <<K_time, JString(S_soon)>>, <<K_level, JString(<<"d","e","b","u","g">>)>> >>),
      Obj(<< <<K_time, JString(S_soon)>>, <<K_level, JString(<<"e","r","r","o","r">>)>> >>),
      Obj(<< <<K_level, JString(S_info)>>, <<K_message, JString(S_hello)>> >>) }

\* a rule whose colour name getColorFunc does not know
PinkRule == [w \in { S_hello } |-> <<"p","i","n","k">>]

InitStream ==
    /\ minLevel \in { << >>, S_warn, S_loud, <<" ">> }
    /\ usePager \in BOOLEAN
    /\ colorRules = << >>
    /\ customColors = PinkRule
    /\ convertTimestamps = FALSE
    /\ timestampFields = << >>
    /\ tzOffset = 0
    /\ pc = "scan"
    /\ line = EmptyLine
    /\ result = NoResult
    /\ stdin = << >>
    /\ stdout = << >>
    /\ outputLines = << >>
    /\ cancelled = FALSE
    /\ CacheInit
    /\ ret = "none"

ScanStream == ScanLineFrom(StreamLines)

NextStream == Cancel \/ ScanStream \/ ScanEOF \/ ScanError \/ Body \/ Flush

SpecStream == InitStream /\ [][NextStream]_vars

\* the returns of Process that are nil
NilReturns == {"none", "cancelled", "end of input"}

CacheNames == { K_timestamp, K_expires, K_user }

\* sync.RWMutex. RLock returns when nobody is inside Lock: a writer that has
\* announced itself (w) keeps new readers out, also while it still waits for
\* the readers that hold the lock. Lock first takes the writers' mutex w, then
\* waits until the last reader has left.

\* RLock that lets a reader in while a writer is inside Lock
CanRLock_IgnoreWriter(mu) == TRUE

CanRLock(mu) == mu.w = 0

CanLock(mu) == mu.w = 0

CanAcquire(mu, g) == mu.w = g /\ ~mu.held /\ mu.readers = {}

\* the other variables of the module, which the cache does not touch
NoCacheVars ==
    <<Config, pc, line, result, stdin, stdout, outputLines, cancelled, ret>>

InitCache ==
    /\ minLevel = << >>
    /\ usePager = FALSE
    /\ colorRules = << >>
    /\ customColors = NoRules
    /\ convertTimestamps = TRUE
    /\ timestampFields = << >>
    /\ tzOffset = 0
    /\ pc = "cache"
    /\ line = EmptyLine
    /\ result = NoResult
    /\ stdin = << >>
    /\ stdout = << >>
    /\ outputLines = << >>
    /\ cancelled = FALSE
    /\ CacheInit
    /\ ret = "none"

\* a goroutine calls isTimestampFieldCached(fieldName)
CallCached ==
    /\ calls < MaxCalls
    /\ \E g \in Goroutines, name \in CacheNames :
          /\ goroutines[g].pc = "idle"
          /\ goroutines' = [goroutines EXCEPT ![g] =
                [IdleGoroutine EXCEPT !.pc = "rlock", !.op = "cached", !.fieldName = name]]
    /\ calls' = calls + 1
    /\ UNCHANGED <<NoCacheVars, fieldCache>>

\* a goroutine calls clearTimestampFieldCache()
CallClear ==
    /\ calls < MaxCalls
    /\ \E g \in Goroutines :
          /\ goroutines[g].pc = "idle"
          /\ goroutines' = [goroutines EXCEPT ![g] =
                [IdleGoroutine EXCEPT !.pc = "lock", !.op = "clear"]]
    /\ calls' = calls + 1
    /\ UNCHANGED <<NoCacheVars, fieldCache>>

\* fieldCache.mu.RLock()
RLock ==
    /\ \E g \in Goroutines :
          /\ goroutines[g].pc = "rlock"
          /\ CanRLock(fieldCache.mu)
          /\ fieldCache' = [fieldCache EXCEPT !.mu.readers = @ \cup {g}]
          /\ goroutines' = [goroutines EXCEPT ![g].pc = "read"]
    /\ UNCHANGED <<NoCacheVars, calls>>

\* cached, exists := fieldCache.cache[fieldName]
ReadCache ==
    /\ \E g \in Goroutines :
          /\ goroutines[g].pc = "read"
          /\ goroutines' = [goroutines EXCEPT
                ![g].pc = "runlock",
                ![g].exists = goroutines[g].fieldName \in DOMAIN fieldCache.cache,
                ![g].cached = IF goroutines[g].fieldName \in DOMAIN fieldCache.cache
                              THEN fieldCache.cache[goroutines[g].fieldName]
                              ELSE FALSE]
    /\ UNCHANGED <<NoCacheVars, fieldCache, calls>>

\* fieldCache.mu.RUnlock(), on either branch; a hit returns the cached value
RUnlock ==
    /\ \E g \in Goroutines :
          /\ goroutines[g].pc = "runlock"
          /\ fieldCache' = [fieldCache EXCEPT !.mu.readers = @ \ {g}]
          /\ goroutines' = [goroutines EXCEPT ![g] =
                IF goroutines[g].exists
                THEN [@ EXCEPT !.pc = "idle",
                               !.returned = << goroutines[g].fieldName, goroutines[g].cached >>]
                ELSE [@ EXCEPT !.pc = "compute"]]
    /\ UNCHANGED <<NoCacheVars, calls>>

\* result := isTimestampField(fieldName)
Compute ==
    /\ \E g \in Goroutines :
          /\ goroutines[g].pc = "compute"
          /\ goroutines' = [goroutines EXCEPT
                ![g].pc = "lock",
                ![g].result = isTimestampField(goroutines[g].fieldName)]
    /\ UNCHANGED <<NoCacheVars, fieldCache, calls>>

\* fieldCache.mu.Lock(), first part: the goroutine is let in as the writer
Lock ==
    /\ \E g \in Goroutines :
          /\ goroutines[g].pc = "lock"
          /\ CanLock(fieldCache.mu)
          /\ fieldCache' = [fieldCache EXCEPT !.mu.w = g]
          /\ goroutines' = [goroutines EXCEPT ![g].pc = "lockwait"]
    /\ UNCHANGED <<NoCacheVars, calls>>

\* fieldCache.mu.Lock(), second part: the readers have left, Lock returns
LockAcquire ==
    /\ \E g \in Goroutines :
          /\ goroutines[g].pc = "lockwait"
          /\ CanAcquire(fieldCache.mu, g)
          /\ fieldCache' = [fieldCache EXCEPT !.mu.held = TRUE]
          /\ goroutines' = [goroutines EXCEPT
                ![g].pc = IF goroutines[g].op = "clear" THEN "clear" ELSE "write"]
    /\ UNCHANGED <<NoCacheVars, calls>>

\* fieldCache.cache[fieldName] = result
WriteCache ==
    /\ \E g \in Goroutines :
          /\ goroutines[g].pc = "write"
          /\ fieldCache' = [fieldCache EXCEPT
                !.cache = MapSet(@, goroutines[g].fieldName, goroutines[g].result)]
          /\ goroutines' = [goroutines EXCEPT ![g].pc = "unlock"]
    /\ UNCHANGED <<NoCacheVars, calls>>

\* fieldCache.cache = make(map[string]bool)
ClearCache ==
    /\ \E g \in Goroutines :
          /\ goroutines[g].pc = "clear"
          /\ fieldCache' = [fieldCache EXCEPT !.cache = << >>]
          /\ goroutines' = [goroutines EXCEPT ![g].pc = "unlock"]
    /\ UNCHANGED <<NoCacheVars, calls>>

\* fieldCache.mu.Unlock() and the return that follows it
Unlock ==
    /\ \E g \in Goroutines :
          /\ goroutines[g].pc = "unlock"
          /\ fieldCache' = [fieldCache EXCEPT !.mu.w = 0, !.mu.held = FALSE]
          /\ goroutines' = [goroutines EXCEPT ![g] =
                IF goroutines[g].op = "cached"
                THEN [@ EXCEPT !.pc = "idle",
                               !.returned = << goroutines[g].fieldName, goroutines[g].result >>]
                ELSE [@ EXCEPT !.pc = "idle"]]
    /\ UNCHANGED <<NoCacheVars, calls>>

\* the steps of calls that are under way
CacheStep ==
    RLock \/ ReadCache \/ RUnlock \/ Compute \/ Lock \/ LockAcquire
        \/ WriteCache \/ ClearCache \/ Unlock

NextCache == CallCached \/ CallClear \/ CacheStep

SpecCache == InitCache /\ [][NextCache]_vars

\* goroutines that read the map, and goroutines that write it, at this moment
Reading == {g \in Goroutines : goroutines[g].pc = "read"}
Writing == {g \in Goroutines : goroutines[g].pc \in {"write", "clear"}}

\* C25: under every interleaving of isTimestampFieldCached and
\* clearTimestampFieldCache calls, the map is written only under the write lock
\* and read only under a read lock, no write overlaps another access, a call
\* under way can always take a step (no deadlock), every stored entry equals
\* isTimestampField of its name, and so does every value returned.
C25_CacheSafe ==
    /\ \A g \in Reading : g \in fieldCache.mu.readers /\ ~fieldCache.mu.held
    /\ \A g \in Writing : /\ fieldCache.mu.w = g
                          /\ fieldCache.mu.held
                          /\ fieldCache.mu.readers = {}
    /\ Writing # {} => Cardinality(Writing) = 1 /\ Reading = {}
    /\ (\E g \in Goroutines : goroutines[g].pc # "idle") => ENABLED CacheStep
    /\ \A n \in DOMAIN fieldCache.cache : fieldCache.cache[n] = isTimestampField(n)
    /\ \A g \in Goroutines :
          goroutines[g].returned # << >> =>
              goroutines[g].returned[2] = isTimestampField(goroutines[g].returned[1])

\* two goroutines missed the same name; one has stored its result and returned
\* it, the other is inside Lock on its way to storing the same entry again
C25_Witness ==
    \E g, h \in Goroutines :
        /\ g # h
        /\ goroutines[g].returned = << K_timestamp, TRUE >>
        /\ goroutines[g].pc = "idle"
        /\ goroutines[h].pc = "lockwait"
        /\ goroutines[h].fieldName = K_timestamp
        /\ ~goroutines[h].exists
        /\ K_timestamp \in DOMAIN fieldCache.cache

\* ===========================================================================
\* Where the loop observes a cancellation (Spec)
\* ===========================================================================

\* C26 as claimed: Process returns for a cancellation only from the loop body,
\* that is after a read has returned a line; that line is dropped, nothing is
\* written by the step, and Flush is not called.
C26_ObservedOnlyAfterALine ==
    [][ (ret' = "cancelled" /\ ret # "cancelled") =>
            /\ pc = "body"
            /\ stdout' = stdout
            /\ outputLines' = outputLines
      ]_vars

\* C26, amended: the cancellation is observed after a read has returned, with
\* a line (in the loop body) or with an error (after the loop). The step that
\* observes it writes nothing and buffers nothing, whatever the line just read
\* holds; Process has then returned nil and takes no further step, so Flush is
\* not called and in pager mode nothing at all has reached standard output.
C26_CancelWritesNothing ==
    /\ [][ (ret' = "cancelled" /\ ret # "cancelled") =>
              /\ cancelled
              /\ pc \in {"body", "scan"}
              /\ pc' = "returned"
              /\ stdout' = stdout
              /\ outputLines' = outputLines
         ]_vars
    /\ [][ ret = "cancelled" => UNCHANGED <<pc, stdout, outputLines, ret>> ]_vars
    /\ [](ret = "cancelled" /\ usePager => stdout = << >>)

\* pager mode: the first of two lines was buffered, the second was read after
\* the signal and dropped, and Process returned with the buffer never written
C26_Witness ==
    /\ usePager
    /\ ret = "cancelled"
    /\ pc = "returned"
    /\ stdin = << Other("malformed"), Other("malformed") >>
    /\ outputLines = << LineText(Other("malformed")) >>
    /\ stdout = << >>

\* ===========================================================================
\* A minimum level that is no level name (SpecStream)
\* ===========================================================================

\* the string is neither a level name nor an alias
Unrecognised(levelStr) == ToUpper(TrimSpace(levelStr)) \notin KnownLevelNames

\* the line carries a string level of the class TRACE or DEBUG
LowLevel(doc) ==
    /\ HasStringLevel(doc)
    /\ parseLogLevel(LastValue(doc, K_level).s) \in {LevelTrace, LevelDebug}

\* a pass of the loop body that ran without a cancellation
BodyRan == pc = "body" /\ pc' = "scan"

\* the pass handed nothing to AddLine: the line was hidden
Hid == stdout' = stdout /\ outputLines' = outputLines

\* C27 as claimed: with a minimum level that is no level name the program hides
\* exactly the TRACE and DEBUG records; a record whose level is no level name
\* is shown exactly when the minimum level classifies as INFO or lower.
C27_UnknownMinimumIsInfo ==
    [][ BodyRan =>
          /\ Unrecognised(minLevel) => (Hid <=> LowLevel(line))
          /\ (HasStringLevel(line) /\ Unrecognised(LastValue(line, K_level).s)) =>
                (~Hid <=> parseLogLevel(minLevel) <= LevelInfo)
      ]_vars

\* C27, amended: a minimum level that is not empty and is no level name acts as
\* INFO; the empty minimum level, which ShouldShowLogLevel alone would also
\* take as INFO, turns the filter off in Process, so that nothing is hidden. A
\* record whose level is no level name is shown exactly when the minimum level
\* classifies as INFO or lower.
C27_UnknownNonEmptyMinimumIsInfo ==
    [][ BodyRan =>
          /\ (Unrecognised(minLevel) /\ minLevel # << >>) => (Hid <=> LowLevel(line))
          /\ minLevel = << >> => ~Hid
          /\ Unrecognised(minLevel) => (ShouldShowLogLevel(line, minLevel) <=> ~LowLevel(line))
          /\ (HasStringLevel(line) /\ Unrecognised(LastValue(line, K_level).s)) =>
                (~Hid <=> parseLogLevel(minLevel) <= LevelInfo)
      ]_vars

\* under the minimum level "loud" a debug record was read and hidden, then an
\* info record was read and printed
C27_Witness ==
    /\ minLevel = S_loud
    /\ ~usePager
    /\ pc = "scan"
    /\ Len(stdin) = 2
    /\ LowLevel(stdin[1])
    /\ stdin[2] = Obj(<< <<K_level, JString(S_info)>>, <<K_message, JString(S_hello)>> >>)
    /\ Len(ScanLines(stdout)) = 1

\* ===========================================================================
\* Milliseconds turned into nanoseconds (SpecTime)
\* ===========================================================================

\* C28: for every numeric time value v > 1e10 formatTime returns the calendar
\* time (in the zone of the process) of the instant v milliseconds after the
\* epoch: the product v * 1,000,000 that the code forms in 64 bits never wraps.
C28_MillisNeverWrap ==
    (Formatted /\ result.timeVal.t = "number"
        /\ Above1e10(result.timeVal.neg, result.timeVal.digits)) =>
            result.out = MillisText(FALSE, result.timeVal.digits, tzOffset)

\* ===========================================================================
\* The name heuristic isTimestampField (SpecHeuristic)
\* ===========================================================================

\* names from TestIsTimestampField and names that contain "status"
OtherNames ==
    { <<"a","t">>, <<"o","n">>, <<"s","t","a","t","u","s">>,
      <<"m","e","s","s","a","g","e">>, <<"c","o","u","n","t">>, <<"u","s","e","r">>,
      <<"S","t","a","t","u","s">>,
      <<"s","t","a","t","u","s","t","i","m","e">>,
      <<"s","t","a","t","u","s","_","t","i","m","e","r">>,
      <<"S","t","a","t","u","s","T","i","m","e">>,
      <<"s","t","a","t","u","s","_","t","i","m","e">>,
      <<"s","t","a","t","u","s","_","c","o","d","e">>,
      <<"s","t","a","t","u","s","d","a","t","e">>,
      <<"r","u","n","t","i","m","e">>,
      <<"c","r","e","a","t","e","d","_","a","t">>,
      <<"u","p","d","a","t","e">>,
      <<"d","a","t","a">> }

\* every listed pattern in lower and in upper case, and the other names
HeuristicNames ==
    {timestampPatterns[i] : i \in 1..Len(timestampPatterns)}
        \cup {ToUpper(timestampPatterns[i]) : i \in 1..Len(timestampPatterns)}
        \cup OtherNames

InitHeuristic ==
    /\ line \in {Obj(<< <<n, JBool(TRUE)>> >>) : n \in HeuristicNames}
    /\ minLevel = << >>
    /\ usePager = FALSE
    /\ colorRules = << >>
    /\ customColors = NoRules
    /\ convertTimestamps = TRUE
    /\ timestampFields = << >>
    /\ tzOffset = 0
    /\ pc = "call"
    /\ result = NoResult
    /\ stdin = << >>
    /\ stdout = << >>
    /\ outputLines = << >>
    /\ cancelled = FALSE
    /\ CacheInit
    /\ ret = "none"

\* isTimestampField(fieldName) for the key of the line's only member
CheckFieldName ==
    /\ pc = "call"
    /\ result' = [op |-> "isTimestampField", fieldName |-> line.pairs[1][1],
                  out |-> isTimestampField(line.pairs[1][1])]
    /\ pc' = "done"
    /\ UNCHANGED <<CacheVars, Config, line, stdin, stdout, outputLines, cancelled, ret>>

NextHeuristic == CheckFieldName

SpecHeuristic == InitHeuristic /\ [][NextHeuristic]_vars

\* the lower-cased name is a listed pattern, starts with pattern_ or ends in _pattern
MatchesPattern(name) ==
    \E i \in 1..Len(timestampPatterns) :
        \/ name = timestampPatterns[i]
        \/ HasPrefix(name, timestampPatterns[i] \o <<"_">>)
        \/ HasSuffix(name, <<"_">> \o timestampPatterns[i])

\* C30: isTimestampField returns false for every name that contains "status"
\* and matches no listed pattern, also when the name contains "time"; it
\* returns true for every listed pattern in any letter case, and false for
\* "at", "on", "status", "message" and "count".
C30_StatusNamesExcluded ==
    result.op = "isTimestampField" =>
        LET name == ToLower(result.fieldName) IN
        /\ (Contains(name, <<"s","t","a","t","u","s">>) /\ ~MatchesPattern(name)) => ~result.out
        /\ (\E i \in 1..Len(timestampPatterns) : name = timestampPatterns[i]) => result.out
        /\ name \in { <<"a","t">>, <<"o","n">>, <<"s","t","a","t","u","s">>,
                      <<"m","e","s","s","a","g","e">>, <<"c","o","u","n","t">> } => ~result.out
====
